---- MODULE Spec2Model ----
(***************************************************************************)
(* Model of the moltworker container boot script (start-openclaw.sh): the  *)
(* restore decision, the backup restore, the config patcher, the auth      *)
(* reconciliation stages, the degraded marker and the gateway start,       *)
(* together with the trace-model extension the script installs.            *)
(*                                                                         *)
(* Text that the code takes apart (model references, provider names,       *)
(* profile ids, URLs) is a sequence of tokens: "/" and ":" are tokens of   *)
(* their own, so indexOf, substring, startsWith, trim and toLowerCase are  *)
(* computed on the sequence as the code computes them on the string.       *)
(* A JSON object is a function from its keys to its values; a key that is  *)
(* missing is outside the function's domain.                               *)
(***************************************************************************)
EXTENDS Integers, Sequences, FiniteSets, TLC

VARIABLES
    pc,                      \* position of the boot script
    env,                     \* process environment of the boot
    RCLONE_AVAILABLE,        \* shell variable, line 49
    DO_RESTORE,              \* shell variable, line 89
    AUTH_RECONCILE_REQUIRED, \* shell variable, line 583
    localMarker,             \* $CONFIG_DIR/.last-sync
    configFile,              \* /root/.openclaw/openclaw.json
    authFile,                \* agents/main/agent/auth-profiles.json
    oauthFile,               \* credentials/oauth.json present
    authStateFile,           \* /tmp/openclaw-auth-state.json
    degradedMarker,          \* /tmp/openclaw-auth-degraded
    traceStateFile,          \* trace-model.state.json
    workspace,               \* /root/clawd
    skills,                  \* /root/clawd/skills
    remote,                  \* the R2 bucket
    gatewayRunning,          \* what pgrep finds
    writeBuf,                \* texts a node script has serialised and not yet written
    hist,                    \* history: what the boot did (not program state)
    pin, pdoc, penv, pfirst, pcount,  \* the patcher applied as a pure function
    min, mtoken, mout, mfirst, mcount, \* the Codex script applied as a pure function
    procs,                   \* the processes of the sandbox
    req,                     \* the HTTP requests in flight, one per caller
    reply,                   \* the last response each caller received
    calls,                   \* requests issued so far
    loopPc, loopFs, SYNC_CONFIG, loopLog, loopPrev, loopIter, \* the background sync loop
    sumIn, sumOut, sumCount, \* summarizeAuthState applied as a pure function
    syncPc, syncEnv, syncFs, execLog, syncResult, bucket, syncCalls, \* syncToR2 of the Worker
    syncLoops,               \* background sync loops running in the container
    lastPush                 \* history: the boot a loop last pushed in, and how far it was

bootVars == <<pc, env, RCLONE_AVAILABLE, DO_RESTORE, AUTH_RECONCILE_REQUIRED,
              localMarker, configFile, authFile, oauthFile, authStateFile,
              degradedMarker, traceStateFile, workspace, skills, remote,
              gatewayRunning, writeBuf, hist>>
patchVars == <<pin, pdoc, penv, pfirst, pcount>>
migVars == <<min, mtoken, mout, mfirst, mcount>>
supVars == <<procs, req, reply, calls>>
syncVars == <<loopPc, loopFs, SYNC_CONFIG, loopLog, loopPrev, loopIter>>
sumVars == <<sumIn, sumOut, sumCount>>
pushVars == <<syncPc, syncEnv, syncFs, execLog, syncResult, bucket, syncCalls>>
bgVars == <<syncLoops, lastPush>>
restVars == <<supVars, syncVars, sumVars, pushVars, bgVars>>
auxVars == <<migVars, restVars>>
vars == <<bootVars, patchVars, auxVars>>

-----------------------------------------------------------------------------
(* JSON objects *)

EmptyObj == [k \in {} |-> TRUE]
Has(o, k) == k \in DOMAIN o
GetOr(o, k, d) == IF k \in DOMAIN o THEN o[k] ELSE d
Put(o, k, v) == [x \in (DOMAIN o) \cup {k} |-> IF x = k THEN v ELSE o[x]]
Without(o, k) == [x \in (DOMAIN o) \ {k} |-> o[x]]

-----------------------------------------------------------------------------
(* Strings as token sequences *)

LowerTok(t) ==
    CASE t = "Anthropic" -> "anthropic"
      [] t = "OpenAI-Codex" -> "openai-codex"
      [] t = "OpenAI" -> "openai"
      [] t = "ON" -> "on"
      [] t = "Off" -> "off"
      [] t = "providerId" -> "providerid"
      [] t = "QUJD" -> "qujd"
      [] OTHER -> t

toLowerCase(s) == [i \in DOMAIN s |-> LowerTok(s[i])]

\* String.prototype.indexOf for a one-token needle: 0-based, -1 when absent
indexOf(s, tok) ==
    IF \E i \in DOMAIN s : s[i] = tok
    THEN (CHOOSE i \in DOMAIN s : s[i] = tok /\ \A j \in 1..(i - 1) : s[j] # tok) - 1
    ELSE -1

Clamp(n, len) == IF n < 0 THEN 0 ELSE IF n > len THEN len ELSE n

\* String.prototype.substring(a, b): indices clamped to [0, length], swapped if a > b
substring(s, a, b) ==
    LET x == Clamp(a, Len(s))
        y == Clamp(b, Len(s))
        lo == IF x < y THEN x ELSE y
        hi == IF x < y THEN y ELSE x
    IN  SubSeq(s, lo + 1, hi)

substringFrom(s, a) == substring(s, a, Len(s))

startsWith(s, prefix) ==
    /\ Len(prefix) <= Len(s)
    /\ SubSeq(s, 1, Len(prefix)) = prefix

RECURSIVE trimStart(_)
trimStart(s) == IF s # <<>> /\ Head(s) = " " THEN trimStart(Tail(s)) ELSE s
RECURSIVE trimEnd(_)
trimEnd(s) ==
    IF s # <<>> /\ s[Len(s)] = " " THEN trimEnd(SubSeq(s, 1, Len(s) - 1)) ELSE s
trim(s) == trimEnd(trimStart(s))

-----------------------------------------------------------------------------
(* ConfigPatcher: the node script of lines 318-455 *)

\* a value that is a string in one document and an object in another
JStr(s) == [t |-> "string", s |-> s, o |-> EmptyObj]
JObj(o) == [t |-> "object", s |-> <<>>, o |-> o]

EXTENSIONS_PATH == "/root/.openclaw/extensions"

includes(list, x) == \E i \in DOMAIN list : list[i] = x

\* TELEGRAM_DM_ALLOW_FROM.split(',')
split(csv) ==
    CASE csv = "111,222" -> <<"111", "222">>
      [] OTHER -> <<csv>>

\* lines 331-336: config.x = config.x || {}
EnsureSubtrees(config) ==
    LET c1 == Put(config, "gateway", GetOr(config, "gateway", EmptyObj))
        c2 == Put(c1, "channels", GetOr(c1, "channels", EmptyObj))
        p0 == GetOr(c2, "plugins", EmptyObj)
        p1 == Put(p0, "entries", GetOr(p0, "entries", EmptyObj))
        l0 == GetOr(p1, "load", EmptyObj)
        l1 == Put(l0, "paths", GetOr(l0, "paths", <<>>))
    IN  Put(c2, "plugins", Put(p1, "load", l1))

\* the path appended on every run, without the includes() test
EnsureExtensionsPathAlways(config) ==
    Put(config, "plugins",
        Put(config["plugins"], "load",
            Put(config["plugins"]["load"], "paths",
                Append(config["plugins"]["load"]["paths"], EXTENSIONS_PATH))))

\* lines 339-341: append the extensions path if it is not in the list
EnsureExtensionsPath(config) ==
    LET paths == config["plugins"]["load"]["paths"]
        paths2 == IF ~includes(paths, EXTENSIONS_PATH)
                  THEN Append(paths, EXTENSIONS_PATH) ELSE paths
    IN  Put(config, "plugins",
            Put(config["plugins"], "load",
                Put(config["plugins"]["load"], "paths", paths2)))

\* lines 344-345
EnableTraceModel(config) ==
    LET entries == config["plugins"]["entries"]
        e0 == GetOr(entries, "trace-model", EmptyObj)
    IN  Put(config, "plugins",
            Put(config["plugins"], "entries",
                Put(entries, "trace-model", Put(e0, "enabled", TRUE))))

\* the gateway subtree built from the environment alone
PatchGatewayReset(config, e) ==
    LET g1 == [port |-> 18789, mode |-> "local", trustedProxies |-> <<"10.1.0.0">>]
        g2 == IF e.OPENCLAW_GATEWAY_TOKEN # ""
              THEN Put(g1, "auth", [token |-> e.OPENCLAW_GATEWAY_TOKEN])
              ELSE g1
        g3 == IF e.OPENCLAW_DEV_MODE = "true"
              THEN Put(g2, "controlUi", [allowInsecureAuth |-> TRUE])
              ELSE g2
    IN  Put(config, "gateway", g3)

\* lines 348-360
PatchGateway(config, e) ==
    LET g0 == config["gateway"]
        g1 == Put(Put(Put(g0, "port", 18789), "mode", "local"),
                  "trustedProxies", <<"10.1.0.0">>)
        g2 == IF e.OPENCLAW_GATEWAY_TOKEN # ""
              THEN Put(g1, "auth", Put(GetOr(g1, "auth", EmptyObj), "token",
                                       e.OPENCLAW_GATEWAY_TOKEN))
              ELSE g1
        g3 == IF e.OPENCLAW_DEV_MODE = "true"
              THEN Put(g2, "controlUi", Put(GetOr(g2, "controlUi", EmptyObj),
                                            "allowInsecureAuth", TRUE))
              ELSE g2
    IN  Put(config, "gateway", g3)

\* lines 383-389: undefined is the empty sequence
GatewayBaseUrl(e, gwProvider) ==
    IF e.CF_AI_GATEWAY_ACCOUNT_ID # "" /\ e.CF_AI_GATEWAY_GATEWAY_ID # ""
    THEN <<"https://", "gateway.ai.cloudflare.com", "/", "v1", "/",
           e.CF_AI_GATEWAY_ACCOUNT_ID, "/", e.CF_AI_GATEWAY_GATEWAY_ID, "/">>
         \o gwProvider
         \o (IF gwProvider = <<"workers-ai">> THEN <<"/", "v1">> ELSE <<>>)
    ELSE IF gwProvider = <<"workers-ai">> /\ e.CF_ACCOUNT_ID # ""
    THEN <<"https://", "api.cloudflare.com", "/", "client", "/", "v4", "/",
           "accounts", "/", e.CF_ACCOUNT_ID, "/", "ai", "/", "v1">>
    ELSE <<>>

\* the override installed without an API key
OverrideAppliesWithoutKey(e, gwProvider) == GatewayBaseUrl(e, gwProvider) # <<>>

\* line 391: the override is installed only with a base URL and an API key
OverrideApplies(e, gwProvider) ==
    /\ GatewayBaseUrl(e, gwProvider) # <<>>
    /\ e.CLOUDFLARE_AI_GATEWAY_API_KEY # ""

\* lines 373-410
PatchAiGatewayModel(config, e) ==
    IF e.CF_AI_GATEWAY_MODEL = <<>> THEN config
    ELSE
      LET raw == e.CF_AI_GATEWAY_MODEL
          slashIdx == indexOf(raw, "/")
          gwProvider == substring(raw, 0, slashIdx)
          modelId == substringFrom(raw, slashIdx + 1)
          baseUrl == GatewayBaseUrl(e, gwProvider)
          api == IF gwProvider = <<"anthropic">>
                 THEN "anthropic-messages" ELSE "openai-completions"
          providerName == <<"cf-ai-gw-">> \o gwProvider
          entry == [baseUrl |-> baseUrl,
                    apiKey |-> e.CLOUDFLARE_AI_GATEWAY_API_KEY,
                    api |-> api,
                    models |-> <<[id |-> modelId, name |-> modelId,
                                  contextWindow |-> 131072, maxTokens |-> 8192]>>]
          m0 == GetOr(config, "models", EmptyObj)
          m1 == Put(m0, "providers",
                    Put(GetOr(m0, "providers", EmptyObj), providerName, entry))
          a0 == GetOr(config, "agents", EmptyObj)
          d0 == GetOr(a0, "defaults", EmptyObj)
          d1 == Put(d0, "model",
                    JObj([primary |-> providerName \o <<"/">> \o modelId]))
      IN  IF OverrideApplies(e, gwProvider)
          THEN Put(Put(config, "models", m1), "agents", Put(a0, "defaults", d1))
          ELSE config

\* the new fields merged over the previous subtree
TelegramSubtreeMerged(old, e) ==
    LET dmPolicy == IF e.TELEGRAM_DM_POLICY # "" THEN e.TELEGRAM_DM_POLICY
                    ELSE "pairing"
    IN  Put(Put(Put(old, "botToken", e.TELEGRAM_BOT_TOKEN), "enabled", TRUE),
            "dmPolicy", dmPolicy)

\* lines 415-427: the telegram subtree is built from the environment alone
TelegramSubtree(old, e) ==
    LET dmPolicy == IF e.TELEGRAM_DM_POLICY # "" THEN e.TELEGRAM_DM_POLICY
                    ELSE "pairing"
        t0 == [botToken |-> e.TELEGRAM_BOT_TOKEN, enabled |-> TRUE,
               dmPolicy |-> dmPolicy]
    IN  IF e.TELEGRAM_DM_ALLOW_FROM # ""
        THEN Put(t0, "allowFrom", split(e.TELEGRAM_DM_ALLOW_FROM))
        ELSE IF dmPolicy = "open" THEN Put(t0, "allowFrom", <<"*">>)
        ELSE t0

PatchTelegram(config, e) ==
    IF e.TELEGRAM_BOT_TOKEN = "" THEN config
    ELSE Put(config, "channels",
             Put(config["channels"], "telegram",
                 TelegramSubtree(GetOr(config["channels"], "telegram", EmptyObj), e)))

\* lines 431-442
DiscordSubtree(old, e) ==
    LET dmPolicy == IF e.DISCORD_DM_POLICY # "" THEN e.DISCORD_DM_POLICY
                    ELSE "pairing"
        dm0 == [policy |-> dmPolicy]
        dm == IF dmPolicy = "open" THEN Put(dm0, "allowFrom", <<"*">>) ELSE dm0
    IN  [token |-> e.DISCORD_BOT_TOKEN, enabled |-> TRUE, dm |-> dm]

PatchDiscord(config, e) ==
    IF e.DISCORD_BOT_TOKEN = "" THEN config
    ELSE Put(config, "channels",
             Put(config["channels"], "discord",
                 DiscordSubtree(GetOr(config["channels"], "discord", EmptyObj), e)))

\* lines 445-451
SlackSubtree(old, e) ==
    [botToken |-> e.SLACK_BOT_TOKEN, appToken |-> e.SLACK_APP_TOKEN,
     enabled |-> TRUE]

PatchSlack(config, e) ==
    IF e.SLACK_BOT_TOKEN = "" \/ e.SLACK_APP_TOKEN = "" THEN config
    ELSE Put(config, "channels",
             Put(config["channels"], "slack",
                 SlackSubtree(GetOr(config["channels"], "slack", EmptyObj), e)))

\* lines 331-451: the document the patcher serialises, from the one it parsed
PatchConfig(config, e) ==
    PatchSlack(
      PatchDiscord(
        PatchTelegram(
          PatchAiGatewayModel(
            PatchGateway(
              EnableTraceModel(EnsureExtensionsPath(EnsureSubtrees(config))),
              e),
            e),
          e),
        e),
      e)

-----------------------------------------------------------------------------
(* Files: a JSON file is its document plus what follows the document *)

NoFile == [st |-> "absent", doc |-> EmptyObj, tail |-> ""]
\* fs.writeFileSync has opened the file (O_TRUNC) and has not written all of it
Partial == [st |-> "partial", doc |-> EmptyObj, tail |-> ""]
\* a text that is no JSON document (a hand-edited or damaged file)
Broken == [st |-> "text", doc |-> EmptyObj, tail |-> "{"]
FileText(doc, tail) == [st |-> "text", doc |-> doc, tail |-> tail]

\* JSON.stringify(value, null, 2)
stringify(doc) == FileText(doc, "")

\* JSON.parse: trailing whitespace is accepted, anything else after the
\* document is a SyntaxError, and so is an empty or cut-off text
ValidJson(f) == f.st = "text" /\ f.tail \in {"", "\n"}
parse(f) == IF ValidJson(f) THEN [ok |-> TRUE, value |-> f.doc]
            ELSE [ok |-> FALSE, value |-> EmptyObj]

NoMarker == [present |-> FALSE, text |-> ""]
Marker(text) == [present |-> TRUE, text |-> text]

-----------------------------------------------------------------------------
(* TimestampResolver: should_restore_from_r2, lines 59-84 *)

\* date -d "$T" +%s 2>/dev/null || echo "0"
DateEpoch(text) ==
    CASE text = "1970-01-01T00:00:00+00:00" -> 0
      [] text = "1969-12-31T23:59:59+00:00" -> -1
      [] text = "2026-01-01T00:00:00+00:00" -> 1767225600
      [] text = "2026-02-01T00:00:00+00:00" -> 1769904000
      [] text = "2026-03-01T00:00:00+00:00" -> 1772323200
      [] OTHER -> 0

\* $(cat file 2>/dev/null) || true: the empty string when there is no file
CatOrEmpty(m) == IF m.present THEN m.text ELSE ""

\* an equal remote epoch counted as newer
should_restore_when_not_older(available, R2_TIME, LOCAL_TIME) ==
    /\ available
    /\ R2_TIME # ""
    /\ \/ LOCAL_TIME = ""
       \/ DateEpoch(R2_TIME) >= DateEpoch(LOCAL_TIME)

should_restore_from_r2(available, R2_TIME, LOCAL_TIME) ==
    /\ available
    /\ R2_TIME # ""
    /\ \/ LOCAL_TIME = ""
       \/ DateEpoch(R2_TIME) > DateEpoch(LOCAL_TIME)

-----------------------------------------------------------------------------
(* Auth check: check_auth_provider_state, lines 469-581 *)

\* a profile or legacy entry; a missing field is <<>>, "" or 0
Cred(type, provider, secret, expires) ==
    [type |-> type, provider |-> provider, secret |-> secret, expires |-> expires]

\* { version, profiles: {...} } and the flat legacy map { "<id>": {...} }
\* version 0 and extras FALSE stand for fields the store does not have
Versioned(profiles) ==
    [shape |-> "versioned", version |-> 1, map |-> profiles, extras |-> FALSE]
Legacy(entries) ==
    [shape |-> "legacy", version |-> 0, map |-> entries, extras |-> FALSE]

\* lines 486-494
getPrimaryModel(cfg) ==
    IF ~cfg.ok THEN <<>>
    ELSE LET agents == GetOr(cfg.value, "agents", EmptyObj)
             defaults == GetOr(agents, "defaults", EmptyObj)
         IN  IF ~Has(defaults, "model") THEN <<>>
             ELSE IF defaults["model"].t = "string" THEN defaults["model"].s
             ELSE IF Has(defaults["model"].o, "primary")
                  THEN defaults["model"].o["primary"]
             ELSE <<>>

\* lines 496-503
providerFromModel(modelRef) ==
    LET trimmed == trim(modelRef)
        slashIdx == indexOf(trimmed, "/")
    IN  IF trimmed = <<>> \/ startsWith(trimmed, <<"http://">>)
           \/ startsWith(trimmed, <<"https://">>) THEN <<>>
        ELSE IF slashIdx <= 0 THEN <<>>
        ELSE toLowerCase(substring(trimmed, 0, slashIdx))

\* a synthetic gateway provider counted as the provider behind it
hasProviderEnvKeyBehindGateway(provider, e) ==
    LET p == toLowerCase(provider)
        q == IF startsWith(p, <<"cf-ai-gw-">>) THEN Tail(p) ELSE p
    IN  IF q = <<"anthropic">>
        THEN e.ANTHROPIC_OAUTH_TOKEN # "" \/ e.ANTHROPIC_API_KEY # ""
        ELSE IF q = <<"openai">> THEN e.OPENAI_API_KEY # ""
        ELSE FALSE

\* lines 505-511
hasProviderEnvKey(provider, e) ==
    LET p == toLowerCase(provider)
    IN  IF p = <<"anthropic">>
        THEN e.ANTHROPIC_OAUTH_TOKEN # "" \/ e.ANTHROPIC_API_KEY # ""
        ELSE IF p = <<"openai">> THEN e.OPENAI_API_KEY # ""
        ELSE FALSE

\* the entry compared without lowercasing it
EntryMatchesCaseSensitive(id, cred, p) ==
    \/ cred.provider = p
    \/ startsWith(id, p \o <<":">>)

\* lines 521-523 and 531-533: one entry of the store against the provider
EntryMatches(id, cred, p) ==
    \/ toLowerCase(cred.provider) = p
    \/ startsWith(toLowerCase(id), p \o <<":">>)

\* lines 513-536: both store shapes are searched the same way
hasProviderInAuthStore(store, provider) ==
    /\ store.ok
    /\ provider # <<>>
    /\ \E id \in DOMAIN store.value.map :
          EntryMatches(id, store.value.map[id], toLowerCase(provider))

\* lines 538-566: the state object the checker writes and exits on
check_auth_provider_state(cfgFile, storeFile, e) ==
    LET primaryModel == getPrimaryModel(parse(cfgFile))
        primaryProvider == providerFromModel(primaryModel)
        store == parse(storeFile)
        hasRequiredProvider ==
            IF primaryProvider # <<>>
            THEN hasProviderEnvKey(primaryProvider, e)
                 \/ hasProviderInAuthStore(store, primaryProvider)
            ELSE TRUE
    IN  [primaryModel |-> primaryModel,
         primaryProvider |-> primaryProvider,
         authProfilesPresent |-> store.ok,
         hasRequiredProvider |-> hasRequiredProvider,
         mismatch |-> primaryProvider # <<>> /\ ~hasRequiredProvider]

-----------------------------------------------------------------------------
(* Codex bootstrap and legacy migration: lines 625-765 *)

\* Date.now(), in milliseconds
NowMs == 5 * 1000

JWT_FRESH == "hdr.exp9.sig"      \* payload {"exp": 9}
JWT_EXPIRED == "hdr.exp3.sig"    \* payload {"exp": 3}
JWT_NOEXP == "hdr.sub.sig"       \* payload without exp
JWT_OPAQUE == "hdr.zzz.sig"      \* three segments, payload is not JSON
PLAIN_KEY == "sk-plain"

\* lines 649-651
isJwt(t) == t \in {JWT_FRESH, JWT_EXPIRED, JWT_NOEXP, JWT_OPAQUE}

\* lines 653-663, then `typeof payload.exp === 'number' ? payload.exp : null`;
\* 0 stands for "no exp"
JwtExpSeconds(t) ==
    CASE t = JWT_FRESH -> 9
      [] t = JWT_EXPIRED -> 3
      [] OTHER -> 0

\* lines 699-701 and 746-748: expires = expSeconds ? expSeconds * 1000 : undefined
JwtExpires(t) == IF isJwt(t) THEN JwtExpSeconds(t) * 1000 ELSE 0

CODEX == <<"openai-codex">>
CODEX_DEFAULT == <<"openai-codex", ":", "default">>

\* the refs the inline node -e of line 636 collects
ModelRefs(cfg) ==
    IF ~cfg.ok THEN {}
    ELSE LET agents == GetOr(cfg.value, "agents", EmptyObj)
             defaults == GetOr(agents, "defaults", EmptyObj)
         IN  IF ~Has(defaults, "model") THEN {}
             ELSE IF defaults["model"].t = "string" THEN {defaults["model"].s}
             ELSE LET o == defaults["model"].o
                      fb == GetOr(o, "fallbacks", <<>>)
                  IN  (IF Has(o, "primary") THEN {o["primary"]} ELSE {})
                      \cup {fb[i] : i \in DOMAIN fb}

\* line 636
NEEDS_OPENAI_CODEX(cfgFile) ==
    \E r \in ModelRefs(parse(cfgFile)) : startsWith(r, CODEX \o <<"/">>)

EmptyStore == [shape |-> "versioned", version |-> 1, map |-> EmptyObj,
               extras |-> FALSE]

\* lines 674-685
ensureStoreShape(raw) ==
    IF raw.ok /\ raw.value.shape = "versioned"
    THEN [shape |-> "versioned",
          version |-> IF raw.value.version = 0 THEN 1 ELSE raw.value.version,
          map |-> raw.value.map,
          extras |-> raw.value.extras]
    ELSE EmptyStore

\* String(id).split(':')[0]
BeforeColon(id) ==
    IF indexOf(id, ":") < 0 THEN id ELSE substring(id, 0, indexOf(id, ":"))

\* line 693
LegacyProviderId(id, cred) ==
    trim(IF cred.provider # <<>> THEN cred.provider ELSE BeforeColon(id))

\* lines 692-696: the legacy entries that yield a profile
Migratable(entries) ==
    {id \in DOMAIN entries :
        LegacyProviderId(id, entries[id]) # <<>> /\ entries[id].secret # ""}

\* lines 697-705
MigratedCred(providerId, apiKey) ==
    IF providerId = CODEX
    THEN Cred("token", providerId, apiKey, JwtExpires(apiKey))
    ELSE Cred("api_key", providerId, apiKey, 0)

\* the migration without the raw.profiles guard of line 689: a versioned
\* store is taken for a legacy map and its profiles are migrated again
migrateWithoutShapeGuard(raw) ==
    IF ~raw.ok
    THEN [ok |-> FALSE, value |-> EmptyStore]
    ELSE
      LET entries == raw.value.map
          ids == Migratable(entries)
          pids == {LegacyProviderId(id, entries[id]) \o <<":", "default">> : id \in ids}
          src(pid) == CHOOSE id \in ids :
                         LegacyProviderId(id, entries[id]) \o <<":", "default">> = pid
          profiles == [pid \in pids |->
                         MigratedCred(LegacyProviderId(src(pid), entries[src(pid)]),
                                      entries[src(pid)].secret)]
      IN  IF ids = {} THEN [ok |-> FALSE, value |-> EmptyStore]
          ELSE [ok |-> TRUE,
                value |-> [shape |-> "versioned", version |-> 1,
                           map |-> profiles, extras |-> FALSE]]

\* lines 687-708: ok = FALSE is the null the function returns
migrateLegacyIntoStore(raw) ==
    IF ~raw.ok \/ raw.value.shape = "versioned"
    THEN [ok |-> FALSE, value |-> EmptyStore]
    ELSE
      LET entries == raw.value.map
          ids == Migratable(entries)
          pids == {LegacyProviderId(id, entries[id]) \o <<":", "default">> : id \in ids}
          src(pid) == CHOOSE id \in ids :
                         LegacyProviderId(id, entries[id]) \o <<":", "default">> = pid
          profiles == [pid \in pids |->
                         MigratedCred(LegacyProviderId(src(pid), entries[src(pid)]),
                                      entries[src(pid)].secret)]
      IN  IF ids = {} THEN [ok |-> FALSE, value |-> EmptyStore]
          ELSE [ok |-> TRUE,
                value |-> [shape |-> "versioned", version |-> 1,
                           map |-> profiles, extras |-> FALSE]]

\* lines 710-713
findProfileIds(store, providerId) ==
    {id \in DOMAIN store.map :
        startsWith(toLowerCase(id), toLowerCase(providerId) \o <<":">>)}

\* lines 715-719
isExpired(cred) == cred.expires > 0 /\ NowMs >= cred.expires

\* lines 733-739
hasValid(store) ==
    \E id \in findProfileIds(store, CODEX) :
        /\ store.map[id].type \in {"token", "oauth"}
        /\ toLowerCase(store.map[id].provider) = CODEX
        /\ ~isExpired(store.map[id])

\* a bootstrap that takes any non-empty credential of the environment
BootstrapInstallsAnyToken(store, envToken) ==
    /\ ~hasValid(store)
    /\ envToken # ""
    /\ ~(JwtExpires(envToken) > 0 /\ NowMs >= JwtExpires(envToken))

\* lines 741-752: whether the environment token is installed as a profile
BootstrapInstalls(store, envToken) ==
    /\ ~hasValid(store)
    /\ envToken # ""
    /\ isJwt(envToken)
    /\ ~(JwtExpires(envToken) > 0 /\ NowMs >= JwtExpires(envToken))

\* lines 721-762: the texts the script writes to the auth store, in order
CodexWrites(storeFile, e) ==
    LET raw == parse(storeFile)
        migrated == migrateLegacyIntoStore(raw)
        store == IF migrated.ok THEN ensureStoreShape(migrated)
                 ELSE ensureStoreShape(raw)
        envToken == e.OPENAI_API_KEY
        boot == [shape |-> "versioned", version |-> 1,
                 map |-> Put(store.map, CODEX_DEFAULT,
                             Cred("token", CODEX, envToken, JwtExpires(envToken))),
                 extras |-> FALSE]
    IN  (IF migrated.ok THEN <<stringify(store)>> ELSE <<>>)
        \o (IF BootstrapInstalls(store, envToken) THEN <<stringify(boot)>> ELSE <<>>)

\* the stages of the script that write the store, in the order of its
\* blocks 1) and 2)
CodexStages(storeFile, e) ==
    LET raw == parse(storeFile)
        migrated == migrateLegacyIntoStore(raw)
        store == IF migrated.ok THEN ensureStoreShape(migrated)
                 ELSE ensureStoreShape(raw)
    IN  (IF migrated.ok THEN <<"migration">> ELSE <<>>)
        \o (IF BootstrapInstalls(store, e.OPENAI_API_KEY) THEN <<"bootstrap">> ELSE <<>>)

-----------------------------------------------------------------------------
(* trace-model extension as the boot script installs it: lines 204-308 *)

TRACE_PREFIX == "[{model}] "

\* line 222: inside the quoted here-document, '\\n' is JavaScript source for
\* a backslash followed by n
INSTALLED_TRAILER == "\\n"

\* lines 219-224: the text renamed into place
writeJsonFileAtomic(value) == FileText(value, INSTALLED_TRAILER)

\* lines 226-228
getTelegramPrefix(config) ==
    LET channels == GetOr(config, "channels", EmptyObj)
        telegram == GetOr(channels, "telegram", EmptyObj)
    IN  GetOr(telegram, "responsePrefix", "")

\* lines 230-234
setTelegramPrefix(config, prefix) ==
    LET channels == GetOr(config, "channels", EmptyObj)
        telegram == GetOr(channels, "telegram", EmptyObj)
    IN  Put(config, "channels",
            Put(channels, "telegram", Put(telegram, "responsePrefix", prefix)))

\* lines 236-242
loadState(f) == IF parse(f).ok THEN parse(f).value ELSE EmptyObj

\* lines 255-259: split(/\\s+/) in the installed file splits at a backslash
\* followed by s, which is the token "\\s"; blanks do not split
firstWord(args) ==
    LET t == trim(args)
        i == indexOf(t, "\\s")
    IN  IF i < 0 THEN t ELSE substring(t, 0, i)

\* lines 248-253
normalizeArg(arg) ==
    LET a == toLowerCase(trim(arg))
    IN  IF a = <<"on">> THEN "on" ELSE IF a = <<"off">> THEN "off" ELSE "status"

\* lines 267-305: the files after the handler, <<config file, state file>>
TraceHandler(cfgFile, stateFile, args) ==
    LET cfg == parse(cfgFile)
        state == loadState(stateFile)
        action == normalizeArg(firstWord(args))
        currentPrefix == getTelegramPrefix(cfg.value)
        restore == GetOr(state, "previousTelegramPrefix", "")
    IN  IF ~cfg.ok \/ action = "status" THEN <<cfgFile, stateFile>>
        ELSE IF action = "on"
        THEN <<writeJsonFileAtomic(setTelegramPrefix(cfg.value, TRACE_PREFIX)),
               IF ~Has(state, "previousTelegramPrefix")
               THEN writeJsonFileAtomic(Put(state, "previousTelegramPrefix",
                                            currentPrefix))
               ELSE stateFile>>
        ELSE <<writeJsonFileAtomic(setTelegramPrefix(cfg.value, restore)),
               writeJsonFileAtomic(EmptyObj)>>

-----------------------------------------------------------------------------
(* Bounds *)

MaxBoots == 2        \* runs of the boot script in one behaviour
MaxPatches == 2      \* applications of the patcher as a pure function
MaxMigrations == 2   \* runs of the Codex script as a pure function
MaxProcs == 2        \* processes the sandbox starts in one behaviour
MaxCalls == 3        \* HTTP requests in one behaviour
MaxIterations == 2   \* iterations of the sync loop in one behaviour
MaxSyncCalls == 2    \* calls of syncToR2 in one behaviour

-----------------------------------------------------------------------------
(* Environments *)

BaseEnv ==
    [R2_ACCESS_KEY_ID |-> "", R2_SECRET_ACCESS_KEY |-> "", CF_ACCOUNT_ID |-> "",
     OPENCLAW_GATEWAY_TOKEN |-> "", OPENCLAW_DEV_MODE |-> "",
     CF_AI_GATEWAY_MODEL |-> <<>>, CF_AI_GATEWAY_ACCOUNT_ID |-> "",
     CF_AI_GATEWAY_GATEWAY_ID |-> "", CLOUDFLARE_AI_GATEWAY_API_KEY |-> "",
     TELEGRAM_BOT_TOKEN |-> "", TELEGRAM_DM_POLICY |-> "",
     TELEGRAM_DM_ALLOW_FROM |-> "",
     DISCORD_BOT_TOKEN |-> "", DISCORD_DM_POLICY |-> "",
     SLACK_BOT_TOKEN |-> "", SLACK_APP_TOKEN |-> "",
     ANTHROPIC_API_KEY |-> "", ANTHROPIC_OAUTH_TOKEN |-> "",
     OPENAI_API_KEY |-> ""]

WithR2(e) == [e EXCEPT !.R2_ACCESS_KEY_ID = "r2-id",
                       !.R2_SECRET_ACCESS_KEY = "r2-secret",
                       !.CF_ACCOUNT_ID = "acct-1"]

-----------------------------------------------------------------------------
(* Documents *)

REF_ANTHROPIC == <<"anthropic", "/", "claude-sonnet-4-5">>
REF_CODEX == <<"openai-codex", "/", "gpt-5.3-codex">>
REF_ANTHROPIC_CAPS == <<" ", "Anthropic", "/", "claude-opus-4-5">>
REF_URL == <<"https://", "models.example.com", "/", "v1">>
REF_NOSLASH == <<"gpt-4o">>
REF_WORKERS == <<"workers-ai", "/", "@cf", "/", "meta", "/", "llama-3.3-70b">>

\* a key of a document, present when opt is <<value>> and missing when <<>>
Opt(k, opt) == IF opt = <<>> THEN EmptyObj ELSE (k :> opt[1])

WithModel(model) == [agents |-> [defaults |-> [model |-> model]]]

StaleTelegram ==
    [botToken |-> "old-bot-token", enabled |-> FALSE, dmPolicy |-> "open",
     allowFrom |-> <<"42">>, groupPolicy |-> "allowlist",
     responsePrefix |-> "[hal] "]

StaleDiscord == [token |-> "old-discord", dmPolicy |-> "open", enabled |-> FALSE]

StaleSlack == [botToken |-> "old-slack", signingSecret |-> "s3"]

-----------------------------------------------------------------------------
(* The boot script, one action per section *)

NoState == [present |-> FALSE,
            state |-> [primaryModel |-> <<>>, primaryProvider |-> <<>>,
                       authProfilesPresent |-> FALSE,
                       hasRequiredProvider |-> TRUE, mismatch |-> FALSE]]
NoDegraded == [present |-> FALSE, provider |-> <<>>]

FreshHist ==
    [boots |-> 1, resolverCalls |-> 0, decidedRemote |-> NoMarker, decidedLocal |-> NoMarker,
     readOk |-> FALSE, restoredFrom |-> "none", markerCopied |-> FALSE,
     wsRestored |-> FALSE, skillsRestored |-> FALSE, restoreWarning |-> FALSE,
     firstChecked |-> FALSE, firstMismatch |-> FALSE, lastCheck |-> NoState.state,
     markerWritten |-> FALSE, markerCleared |-> FALSE, abortedAt |-> "",
     traced |-> "", patched |-> FALSE, stages |-> <<>>, checks |-> 0,
     crashed |-> FALSE, markerFound |-> FALSE,
     onboarded |-> FALSE, parseFailed |-> FALSE,
     p0 |-> [errors |-> 0, warned |-> {}]]

Abort(at) ==
    /\ pc' = "aborted"
    /\ hist' = [hist EXCEPT !.abortedAt = at]

\* lines 13-16
AlreadyRunning ==
    /\ pc = "start"
    /\ gatewayRunning
    /\ pc' = "exited"
    /\ UNCHANGED <<env, RCLONE_AVAILABLE, DO_RESTORE, AUTH_RECONCILE_REQUIRED,
                   localMarker, configFile, authFile, oauthFile, authStateFile,
                   degradedMarker, traceStateFile, workspace, skills, remote,
                   gatewayRunning, writeBuf, hist, patchVars, auxVars>>

\* lines 31-47
setup_rclone(e) ==
    ~(e.R2_ACCESS_KEY_ID = "" \/ e.R2_SECRET_ACCESS_KEY = "" \/ e.CF_ACCOUNT_ID = "")

\* lines 49-53
SetupRclone ==
    /\ pc = "start"
    /\ ~gatewayRunning
    /\ RCLONE_AVAILABLE' = setup_rclone(env)
    /\ pc' = "decide"
    /\ UNCHANGED <<env, DO_RESTORE, AUTH_RECONCILE_REQUIRED,
                   localMarker, configFile, authFile, oauthFile, authStateFile,
                   degradedMarker, traceStateFile, workspace, skills, remote,
                   gatewayRunning, writeBuf, hist, patchVars, auxVars>>

\* line 63: rclone cat of the remote marker, empty when it fails
RemoteTime(available, readOk) ==
    IF available /\ readOk THEN CatOrEmpty(remote.marker) ELSE ""

\* lines 89-92
EvaluateRestoreDecision ==
    /\ pc = "decide"
    /\ \E readOk \in BOOLEAN :
         /\ DO_RESTORE' = should_restore_from_r2(RCLONE_AVAILABLE,
                              RemoteTime(RCLONE_AVAILABLE, readOk),
                              CatOrEmpty(localMarker))
         /\ hist' = [hist EXCEPT !.resolverCalls = @ + 1,
                                 !.decidedRemote = remote.marker,
                                 !.decidedLocal = localMarker,
                                 !.readOk = readOk]
    /\ pc' = "restore_config"
    /\ UNCHANGED <<env, RCLONE_AVAILABLE, AUTH_RECONCILE_REQUIRED,
                   localMarker, configFile, authFile, oauthFile, authStateFile,
                   degradedMarker, traceStateFile, workspace, skills, remote,
                   gatewayRunning, writeBuf, patchVars, auxVars>>

\* the resolver invoked again by each restore step
RestoreIndicatedRecomputed ==
    should_restore_from_r2(RCLONE_AVAILABLE, CatOrEmpty(remote.marker),
                           CatOrEmpty(localMarker))

\* lines 94, 119, 128: what the restore steps consult
RestoreIndicated == DO_RESTORE

\* lines 96, 101, 107: the first layout whose config file is listed
FirstLayout ==
    IF "current" \in remote.layouts THEN "current"
    ELSE IF "nested" \in remote.layouts THEN "nested"
    ELSE IF "flat" \in remote.layouts THEN "flat"
    ELSE "none"

\* a failed read that leaves a stamp of the restore in the local marker
MarkerAfterCatStamped(ok) ==
    IF ok /\ remote.marker.present THEN remote.marker ELSE Marker("not-a-date")

\* lines 99, 104: rclone cat remote > local || true. The redirection creates
\* the local file before rclone runs, so a failed read leaves it empty
MarkerAfterCat(ok) ==
    IF ok /\ remote.marker.present THEN remote.marker ELSE Marker("")

\* lines 105, 111 without the test of "$CONFIG_FILE"
ConfigAfterLegacyRenamed == remote.config

\* lines 105, 111: the legacy file is renamed only if no config file exists
ConfigAfterLegacy == IF configFile.st = "absent" THEN remote.config ELSE configFile

\* lines 94-115
RestoreConfig ==
    /\ pc = "restore_config"
    /\ IF ~RestoreIndicated \/ FirstLayout = "none"
       THEN /\ pc' = "restore_workspace"
            /\ UNCHANGED <<configFile, authFile, localMarker, hist>>
       ELSE \E copyOk \in BOOLEAN, catOk \in BOOLEAN :
              IF ~copyOk
              THEN /\ Abort("restore_config")
                   /\ UNCHANGED <<configFile, authFile, localMarker>>
              ELSE
                /\ pc' = "restore_workspace"
                /\ configFile' = IF FirstLayout = "current" THEN remote.config
                                 ELSE ConfigAfterLegacy
                /\ authFile' = IF FirstLayout = "current"
                                  /\ remote.authCurrent.st # "absent"
                               THEN remote.authCurrent ELSE authFile
                /\ localMarker' =
                     IF FirstLayout = "flat"
                     THEN (IF remote.marker.present THEN remote.marker
                           ELSE localMarker)
                     ELSE MarkerAfterCat(catOk)
                /\ hist' = [hist EXCEPT !.restoredFrom = FirstLayout,
                                        !.markerCopied = TRUE]
    /\ UNCHANGED <<env, RCLONE_AVAILABLE, DO_RESTORE, AUTH_RECONCILE_REQUIRED,
                   oauthFile, authStateFile, degradedMarker, traceStateFile,
                   workspace, skills, remote, gatewayRunning, writeBuf, patchVars, auxVars>>

\* lines 117-124 as a branch of the config restore: nothing is restored
\* when no config layout was found
RestoreWorkspaceWithConfig ==
    /\ pc = "restore_workspace"
    /\ IF ~RestoreIndicated \/ remote.workspace = {} \/ hist.restoredFrom = "none"
       THEN /\ pc' = "restore_skills"
            /\ UNCHANGED <<workspace, hist>>
       ELSE \E copyOk \in BOOLEAN :
              IF ~copyOk
              THEN /\ Abort("restore_workspace")
                   /\ workspace' = [workspace EXCEPT !.dir = TRUE]
              ELSE /\ pc' = "restore_skills"
                   /\ workspace' = [dir |-> TRUE,
                                    files |-> workspace.files \cup remote.workspace]
                   /\ hist' = [hist EXCEPT !.wsRestored = TRUE]
    /\ UNCHANGED <<env, RCLONE_AVAILABLE, DO_RESTORE, AUTH_RECONCILE_REQUIRED,
                   localMarker, configFile, authFile, oauthFile, authStateFile,
                   degradedMarker, traceStateFile, skills, remote,
                   gatewayRunning, writeBuf, patchVars, auxVars>>

\* lines 117-124
RestoreWorkspace ==
    /\ pc = "restore_workspace"
    /\ IF ~RestoreIndicated \/ remote.workspace = {}
       THEN /\ pc' = "restore_skills"
            /\ UNCHANGED <<workspace, hist>>
       ELSE \E copyOk \in BOOLEAN :
              IF ~copyOk
              THEN /\ Abort("restore_workspace")
                   /\ workspace' = [workspace EXCEPT !.dir = TRUE]
              ELSE /\ pc' = "restore_skills"
                   /\ workspace' = [dir |-> TRUE,
                                    files |-> workspace.files \cup remote.workspace]
                   /\ hist' = [hist EXCEPT !.wsRestored = TRUE]
    /\ UNCHANGED <<env, RCLONE_AVAILABLE, DO_RESTORE, AUTH_RECONCILE_REQUIRED,
                   localMarker, configFile, authFile, oauthFile, authStateFile,
                   degradedMarker, traceStateFile, skills, remote,
                   gatewayRunning, writeBuf, patchVars, auxVars>>

\* lines 126-133
RestoreSkills ==
    /\ pc = "restore_skills"
    /\ IF ~RestoreIndicated \/ remote.skills = {}
       THEN /\ pc' = "onboard"
            /\ UNCHANGED <<workspace, skills, hist>>
       ELSE \E copyOk \in BOOLEAN :
              IF ~copyOk
              THEN /\ Abort("restore_skills")
                   /\ workspace' = [workspace EXCEPT !.dir = TRUE]
                   /\ skills' = [skills EXCEPT !.dir = TRUE]
              ELSE /\ pc' = "onboard"
                   /\ workspace' = [workspace EXCEPT !.dir = TRUE]
                   /\ skills' = [dir |-> TRUE,
                                 entries |-> skills.entries \cup remote.skills]
                   /\ hist' = [hist EXCEPT !.skillsRestored = TRUE]
    /\ UNCHANGED <<env, RCLONE_AVAILABLE, DO_RESTORE, AUTH_RECONCILE_REQUIRED,
                   localMarker, configFile, authFile, oauthFile, authStateFile,
                   degradedMarker, traceStateFile, remote,
                   gatewayRunning, writeBuf, patchVars, auxVars>>

\* lines 150-169: what the external onboarding writes; its provider choice
\* follows AUTH_ARGS
OnboardDocs(e) ==
    IF e.CLOUDFLARE_AI_GATEWAY_API_KEY # "" /\ e.CF_AI_GATEWAY_ACCOUNT_ID # ""
       /\ e.CF_AI_GATEWAY_GATEWAY_ID # ""
    THEN {WithModel(JObj([primary |-> <<"cloudflare-ai-gateway", "/", "claude">>]))}
    ELSE IF e.ANTHROPIC_API_KEY # "" THEN {WithModel(JObj([primary |-> REF_ANTHROPIC]))}
    ELSE IF e.OPENAI_API_KEY # "" THEN {WithModel(JObj([primary |-> <<"openai", "/", "gpt-4o">>]))}
    ELSE {EmptyObj}

\* lines 147-174
Onboard ==
    /\ pc = "onboard"
    /\ IF configFile.st # "absent"
       THEN /\ pc' = "patch"
            /\ UNCHANGED <<configFile, hist>>
       ELSE \E ok \in BOOLEAN, doc \in OnboardDocs(env) :
              IF ok
              THEN /\ pc' = "patch"
                   /\ configFile' = stringify(doc)
                   /\ hist' = [hist EXCEPT !.onboarded = TRUE]
              ELSE /\ pc' = "aborted"
                   /\ hist' = [hist EXCEPT !.abortedAt = "onboard", !.onboarded = TRUE]
                   /\ UNCHANGED configFile
    /\ UNCHANGED <<env, RCLONE_AVAILABLE, DO_RESTORE, AUTH_RECONCILE_REQUIRED,
                   localMarker, authFile, oauthFile, authStateFile,
                   degradedMarker, traceStateFile, workspace, skills, remote,
                   gatewayRunning, writeBuf, patchVars, auxVars>>

\* a patcher that patches what a damaged file still holds
PatchedTextOfRemains(f, e) == stringify(PatchConfig(f.doc, e))

\* lines 323-329 and 453: the text the patcher serialises from the file it read
PatchedText(f, e) ==
    stringify(PatchConfig(IF parse(f).ok THEN parse(f).value ELSE EmptyObj, e))

\* lines 318-453: the script has read, patched and serialised the document
\* and fs.writeFileSync has opened the config file for writing
PatchOpen ==
    /\ pc = "patch"
    /\ writeBuf' = <<PatchedText(configFile, env)>>
    /\ configFile' = Partial
    /\ pc' = "patch_write"
    /\ hist' = [hist EXCEPT !.parseFailed = ~parse(configFile).ok]
    /\ UNCHANGED <<env, RCLONE_AVAILABLE, DO_RESTORE, AUTH_RECONCILE_REQUIRED,
                   localMarker, authFile, oauthFile, authStateFile,
                   degradedMarker, traceStateFile, workspace, skills, remote,
                   gatewayRunning, patchVars, auxVars>>

\* line 453: the write completes
PatchWrite ==
    /\ pc = "patch_write"
    /\ configFile' = Head(writeBuf)
    /\ writeBuf' = <<>>
    /\ hist' = [hist EXCEPT !.patched = TRUE]
    /\ pc' = "auth_check"
    /\ UNCHANGED <<env, RCLONE_AVAILABLE, DO_RESTORE, AUTH_RECONCILE_REQUIRED,
                   localMarker, authFile, oauthFile, authStateFile,
                   degradedMarker, traceStateFile, workspace, skills, remote,
                   gatewayRunning, patchVars, auxVars>>

\* lines 453 and 669-672: the container is stopped after fs.writeFileSync
\* has truncated the file and before the content is written
KilledDuringWrite ==
    /\ pc \in {"patch_write", "codex_write"}
    /\ Abort("killed")
    /\ writeBuf' = <<>>
    /\ UNCHANGED <<env, RCLONE_AVAILABLE, DO_RESTORE, AUTH_RECONCILE_REQUIRED,
                   localMarker, configFile, authFile, oauthFile, authStateFile,
                   degradedMarker, traceStateFile, workspace, skills, remote,
                   gatewayRunning, patchVars, auxVars>>

\* lines 568-570: the state file the checker leaves
StateFileOf(st) == [present |-> TRUE, state |-> st]

\* a first check whose failure to run counts as a mismatch
AuthCheckCrashIsMismatch(crashed) ==
    /\ pc = "auth_check"
    /\   LET st == check_auth_provider_state(configFile, authFile, env)
             mismatch == crashed \/ st.mismatch
         IN  /\ authStateFile' = IF crashed THEN authStateFile ELSE StateFileOf(st)
             /\ AUTH_RECONCILE_REQUIRED' = mismatch
             /\ hist' = [hist EXCEPT !.firstChecked = TRUE,
                                     !.firstMismatch = mismatch,
                                     !.lastCheck = IF crashed THEN @ ELSE st,
                                     !.restoreWarning = DO_RESTORE /\ mismatch,
                                     !.checks = @ + 1,
                                     !.crashed = crashed]
    /\ pc' = "auth_remote"
    /\ UNCHANGED <<env, RCLONE_AVAILABLE, DO_RESTORE,
                   localMarker, configFile, authFile, oauthFile,
                   degradedMarker, traceStateFile, workspace, skills, remote,
                   gatewayRunning, writeBuf, patchVars, auxVars>>

\* lines 583-598: the checker exits 0, 42, or with another status when the
\* node process does not get to run the script (lines 586-593); then it has
\* not written the state file either
AuthCheckExits(crashed) ==
    /\ pc = "auth_check"
    /\   LET st == check_auth_provider_state(configFile, authFile, env)
             mismatch == ~crashed /\ st.mismatch
         IN  /\ authStateFile' = IF crashed THEN authStateFile ELSE StateFileOf(st)
             /\ AUTH_RECONCILE_REQUIRED' = mismatch
             /\ hist' = [hist EXCEPT !.firstChecked = TRUE,
                                     !.firstMismatch = mismatch,
                                     !.lastCheck = IF crashed THEN @ ELSE st,
                                     !.restoreWarning = DO_RESTORE /\ mismatch,
                                     !.checks = @ + 1,
                                     !.crashed = crashed]
    /\ pc' = "auth_remote"
    /\ UNCHANGED <<env, RCLONE_AVAILABLE, DO_RESTORE,
                   localMarker, configFile, authFile, oauthFile,
                   degradedMarker, traceStateFile, workspace, skills, remote,
                   gatewayRunning, writeBuf, patchVars, auxVars>>

AuthCheck == \E crashed \in BOOLEAN : AuthCheckExits(crashed)

\* lines 602-612: the remote auth-profile file that is copied, if any
RemoteAuthSource ==
    IF remote.authCurrent.st # "absent" THEN remote.authCurrent
    ELSE IF remote.authLegacy.st # "absent" THEN remote.authLegacy
    ELSE NoFile

\* lines 600-623
AuthRemoteRestore ==
    /\ pc = "auth_remote"
    /\ IF ~(AUTH_RECONCILE_REQUIRED /\ RCLONE_AVAILABLE)
       THEN /\ pc' = "codex"
            /\ UNCHANGED <<authFile, authStateFile, AUTH_RECONCILE_REQUIRED, hist>>
       ELSE \E copyOk \in BOOLEAN :
              IF RemoteAuthSource.st # "absent" /\ ~copyOk
              THEN /\ Abort("auth_remote")
                   /\ UNCHANGED <<authFile, authStateFile, AUTH_RECONCILE_REQUIRED>>
              ELSE
                LET restored == IF RemoteAuthSource.st # "absent"
                                THEN RemoteAuthSource ELSE authFile
                    st == check_auth_provider_state(configFile, restored, env)
                IN  /\ authFile' = restored
                    /\ authStateFile' = StateFileOf(st)
                    /\ AUTH_RECONCILE_REQUIRED' = st.mismatch
                    /\ hist' = [hist EXCEPT !.lastCheck = st,
                                            !.stages = Append(@, "remote"),
                                            !.checks = @ + 1]
                    /\ pc' = "codex"
    /\ UNCHANGED <<env, RCLONE_AVAILABLE, DO_RESTORE,
                   localMarker, configFile, oauthFile,
                   degradedMarker, traceStateFile, workspace, skills, remote,
                   gatewayRunning, writeBuf, patchVars, auxVars>>

\* lines 625-764: the bootstrap script has computed what it writes
CodexBootstrap ==
    /\ pc = "codex"
    /\ IF env.OPENAI_API_KEY # "" /\ NEEDS_OPENAI_CODEX(configFile)
          /\ CodexWrites(authFile, env) # <<>>
       THEN /\ writeBuf' = CodexWrites(authFile, env)
            /\ hist' = [hist EXCEPT !.stages = @ \o CodexStages(authFile, env)]
            /\ pc' = "codex_open"
       ELSE /\ writeBuf' = <<>>
            /\ pc' = "refresh"
            /\ UNCHANGED hist
    /\ UNCHANGED <<env, RCLONE_AVAILABLE, DO_RESTORE, AUTH_RECONCILE_REQUIRED,
                   localMarker, configFile, authFile, oauthFile, authStateFile,
                   degradedMarker, traceStateFile, workspace, skills, remote,
                   gatewayRunning, patchVars, auxVars>>

\* lines 669-672: writeJson opens the auth store for writing
CodexOpen ==
    /\ pc = "codex_open"
    /\ authFile' = Partial
    /\ pc' = "codex_write"
    /\ UNCHANGED <<env, RCLONE_AVAILABLE, DO_RESTORE, AUTH_RECONCILE_REQUIRED,
                   localMarker, configFile, oauthFile, authStateFile,
                   degradedMarker, traceStateFile, workspace, skills, remote,
                   gatewayRunning, writeBuf, hist, patchVars, auxVars>>

\* lines 669-672: the write completes; a second write follows a migration
\* when the environment token is installed too
CodexWrite ==
    /\ pc = "codex_write"
    /\ authFile' = Head(writeBuf)
    /\ writeBuf' = Tail(writeBuf)
    /\ pc' = IF Tail(writeBuf) = <<>> THEN "refresh" ELSE "codex_open"
    /\ UNCHANGED <<env, RCLONE_AVAILABLE, DO_RESTORE, AUTH_RECONCILE_REQUIRED,
                   localMarker, configFile, oauthFile, authStateFile,
                   degradedMarker, traceStateFile, workspace, skills, remote,
                   gatewayRunning, hist, patchVars, auxVars>>

\* lines 769-770: what the external CLI's refresh leaves in the auth store:
\* nothing new (<<>>), or an oauth profile for the provider it imported
RefreshOutcomes == {<<>>, <<"anthropic">>, <<"openai-codex">>}

StoreAfterRefresh(f, provider) ==
    IF provider = <<>> THEN f
    ELSE stringify([ensureStoreShape(parse(f)) EXCEPT
            !.map = Put(@, provider \o <<":", "default">>,
                        Cred("oauth", provider, "refreshed", 0))])

\* lines 767-781 as the end of a loop: a mismatch that is still there
\* sends the boot back to the remote restore
AuthRefreshRetrying ==
    /\ pc = "refresh"
    /\ IF ~(AUTH_RECONCILE_REQUIRED /\ oauthFile)
       THEN UNCHANGED <<authFile, authStateFile, AUTH_RECONCILE_REQUIRED, hist>>
       ELSE \E provider \in RefreshOutcomes :
              LET refreshed == StoreAfterRefresh(authFile, provider)
                  st == check_auth_provider_state(configFile, refreshed, env)
              IN  /\ authFile' = refreshed
                  /\ authStateFile' = StateFileOf(st)
                  /\ AUTH_RECONCILE_REQUIRED' = st.mismatch
                  /\ hist' = [hist EXCEPT !.lastCheck = st,
                                          !.stages = Append(@, "refresh"),
                                          !.checks = @ + 1]
    /\ pc' = IF AUTH_RECONCILE_REQUIRED' THEN "auth_remote" ELSE "marker"
    /\ UNCHANGED <<env, RCLONE_AVAILABLE, DO_RESTORE,
                   localMarker, configFile, oauthFile,
                   degradedMarker, traceStateFile, workspace, skills, remote,
                   gatewayRunning, writeBuf, patchVars, auxVars>>

\* lines 767-781
AuthRefresh ==
    /\ pc = "refresh"
    /\ IF ~(AUTH_RECONCILE_REQUIRED /\ oauthFile)
       THEN UNCHANGED <<authFile, authStateFile, AUTH_RECONCILE_REQUIRED, hist>>
       ELSE \E provider \in RefreshOutcomes :
              LET refreshed == StoreAfterRefresh(authFile, provider)
                  st == check_auth_provider_state(configFile, refreshed, env)
              IN  /\ authFile' = refreshed
                  /\ authStateFile' = StateFileOf(st)
                  /\ AUTH_RECONCILE_REQUIRED' = st.mismatch
                  /\ hist' = [hist EXCEPT !.lastCheck = st,
                                          !.stages = Append(@, "refresh"),
                                          !.checks = @ + 1]
    /\ pc' = "marker"
    /\ UNCHANGED <<env, RCLONE_AVAILABLE, DO_RESTORE,
                   localMarker, configFile, oauthFile,
                   degradedMarker, traceStateFile, workspace, skills, remote,
                   gatewayRunning, writeBuf, patchVars, auxVars>>

\* the marker written without reading the state file
DegradedProviderUnknown(stateFile) == <<"unknown">>

\* line 784: s.primaryProvider || 'unknown', 'unknown' too when the state
\* file cannot be read
DegradedProvider(stateFile) ==
    IF stateFile.present /\ stateFile.state.primaryProvider # <<>>
    THEN stateFile.state.primaryProvider ELSE <<"unknown">>

\* a marker step that writes the marker and never removes one
DegradedMarkerStepKeeping ==
    /\ pc = "marker"
    /\ IF AUTH_RECONCILE_REQUIRED
       THEN /\ degradedMarker' = [present |-> TRUE,
                                  provider |-> DegradedProvider(authStateFile)]
            /\ hist' = [hist EXCEPT !.markerWritten = TRUE,
                                    !.markerFound = degradedMarker.present]
       ELSE /\ degradedMarker' = degradedMarker
            /\ hist' = [hist EXCEPT !.markerCleared = TRUE,
                                    !.markerFound = degradedMarker.present]
    /\ pc' = "verify"
    /\ UNCHANGED <<env, RCLONE_AVAILABLE, DO_RESTORE, AUTH_RECONCILE_REQUIRED,
                   localMarker, configFile, authFile, oauthFile, authStateFile,
                   traceStateFile, workspace, skills, remote,
                   gatewayRunning, writeBuf, patchVars, auxVars>>

\* lines 783-790
DegradedMarkerStep ==
    /\ pc = "marker"
    /\ IF AUTH_RECONCILE_REQUIRED
       THEN /\ degradedMarker' = [present |-> TRUE,
                                  provider |-> DegradedProvider(authStateFile)]
            /\ hist' = [hist EXCEPT !.markerWritten = TRUE,
                                    !.markerFound = degradedMarker.present]
       ELSE /\ degradedMarker' = NoDegraded
            /\ hist' = [hist EXCEPT !.markerCleared = TRUE,
                                    !.markerFound = degradedMarker.present]
    /\ pc' = "verify"
    /\ UNCHANGED <<env, RCLONE_AVAILABLE, DO_RESTORE, AUTH_RECONCILE_REQUIRED,
                   localMarker, configFile, authFile, oauthFile, authStateFile,
                   traceStateFile, workspace, skills, remote,
                   gatewayRunning, writeBuf, patchVars, auxVars>>

\* line 807: the files the checklist looks for
MEMORY_FILES == {"IDENTITY.md", "MEMORY.md", "USER.md"}

\* line 838: the free space in MB below which the warning is printed
DISK_MIN_MB == 500

\* line 835: what df and awk give: a number of MB, or (-1) nothing numeric
DISK_FREE == {-1, DISK_MIN_MB - 1, DISK_MIN_MB}

\* lines 802-840: the WARNING lines of the checklist, by check
P0Warnings(ws, sk, cfg, diskFreeMb) ==
    (IF ~ws.dir THEN {"workspace"} ELSE {})
    \cup {f \in MEMORY_FILES : ~ws.dir \/ f \notin ws.files}
    \cup (IF ~sk.dir THEN {"skills"}
          ELSE IF Cardinality(sk.entries) = 0 THEN {"no-skills"} ELSE {})
    \cup (IF cfg.st = "absent" THEN {"config"} ELSE {})
    \cup (IF diskFreeMb >= 0 /\ diskFreeMb < DISK_MIN_MB THEN {"disk"} ELSE {})

\* lines 800-832: P0_ERRORS after the checklist; the disk check of lines
\* 835-841 has no increment
P0_ERRORS(ws, sk, cfg) ==
    (IF ~ws.dir THEN 1 ELSE 0)
    + Cardinality({f \in MEMORY_FILES : ~ws.dir \/ f \notin ws.files})
    + (IF ~sk.dir THEN 1 ELSE IF Cardinality(sk.entries) = 0 THEN 1 ELSE 0)
    + (IF cfg.st = "absent" THEN 1 ELSE 0)

\* lines 795-847: the only change the verification makes is to create the
\* workspace directory; hist.p0 is what it printed
Verify ==
    /\ pc = "verify"
    /\ workspace' = [workspace EXCEPT !.dir = TRUE]
    /\ \E diskFreeMb \in DISK_FREE :
         hist' = [hist EXCEPT !.p0 =
                    [errors |-> P0_ERRORS(workspace, skills, configFile),
                     warned |-> P0Warnings(workspace, skills, configFile, diskFreeMb)]]
    /\ pc' = "sync_loop"
    /\ UNCHANGED <<env, RCLONE_AVAILABLE, DO_RESTORE, AUTH_RECONCILE_REQUIRED,
                   localMarker, configFile, authFile, oauthFile, authStateFile,
                   degradedMarker, traceStateFile, skills, remote,
                   gatewayRunning, writeBuf, patchVars, auxVars>>

\* lines 907-921
\* lines 871-902: with rclone configured the loop is forked as a background
\* subshell; nothing in the script ever stops it
StartSyncLoop ==
    /\ pc = "sync_loop"
    /\ syncLoops' = IF RCLONE_AVAILABLE THEN syncLoops + 1 ELSE syncLoops
    /\ pc' = "start_gateway"
    /\ UNCHANGED <<env, RCLONE_AVAILABLE, DO_RESTORE, AUTH_RECONCILE_REQUIRED,
                   localMarker, configFile, authFile, oauthFile, authStateFile,
                   degradedMarker, traceStateFile, workspace, skills, remote,
                   gatewayRunning, writeBuf, hist, patchVars, migVars,
                   supVars, syncVars, sumVars, pushVars, lastPush>>

StartGateway ==
    /\ pc = "start_gateway"
    /\ gatewayRunning' = TRUE
    /\ pc' = "gateway"
    /\ UNCHANGED <<env, RCLONE_AVAILABLE, DO_RESTORE, AUTH_RECONCILE_REQUIRED,
                   localMarker, configFile, authFile, oauthFile, authStateFile,
                   degradedMarker, traceStateFile, workspace, skills, remote,
                   writeBuf, hist, patchVars, auxVars>>

\* what a chat user sends after /trace
TraceArgs == {<<"on">>, <<"off">>, <<"status">>}

\* lines 267-305: a /trace command handled by the running gateway
TraceCommand ==
    /\ pc = "gateway"
    /\ gatewayRunning
    /\ \E args \in TraceArgs :
         LET after == TraceHandler(configFile, traceStateFile, args)
         IN  /\ configFile' = after[1]
             /\ traceStateFile' = after[2]
             /\ hist' = [hist EXCEPT !.traced =
                            IF after[1] # configFile
                            THEN normalizeArg(firstWord(args)) ELSE @]
    /\ UNCHANGED <<pc, env, RCLONE_AVAILABLE, DO_RESTORE, AUTH_RECONCILE_REQUIRED,
                   localMarker, authFile, oauthFile, authStateFile,
                   degradedMarker, workspace, skills, remote,
                   gatewayRunning, writeBuf, patchVars, auxVars>>

\* the gateway process ends (it is killed, or it crashes)
GatewayExit ==
    /\ pc = "gateway"
    /\ gatewayRunning
    /\ gatewayRunning' = FALSE
    /\ UNCHANGED <<pc, env, RCLONE_AVAILABLE, DO_RESTORE, AUTH_RECONCILE_REQUIRED,
                   localMarker, configFile, authFile, oauthFile, authStateFile,
                   degradedMarker, traceStateFile, workspace, skills, remote,
                   writeBuf, hist, patchVars, auxVars>>

\* the script is run again in the same container: files stay, shell
\* variables start over (lines 49, 89, 583)
Rerun ==
    /\ pc \in {"gateway", "exited", "aborted"}
    /\ hist.boots < MaxBoots
    /\ pc' = "start"
    /\ RCLONE_AVAILABLE' = FALSE
    /\ DO_RESTORE' = FALSE
    /\ AUTH_RECONCILE_REQUIRED' = FALSE
    /\ writeBuf' = <<>>
    /\ hist' = [FreshHist EXCEPT !.boots = hist.boots + 1]
    /\ UNCHANGED <<env, localMarker, configFile, authFile, oauthFile,
                   authStateFile, degradedMarker, traceStateFile, workspace,
                   skills, remote, gatewayRunning, patchVars, auxVars>>

BootSteps ==
    \/ AlreadyRunning
    \/ SetupRclone
    \/ EvaluateRestoreDecision
    \/ RestoreConfig
    \/ RestoreWorkspace
    \/ RestoreSkills
    \/ Onboard
    \/ PatchOpen
    \/ PatchWrite
    \/ AuthRemoteRestore
    \/ CodexBootstrap
    \/ CodexOpen
    \/ CodexWrite
    \/ KilledDuringWrite
    \/ AuthRefresh
    \/ DegradedMarkerStep
    \/ Verify
    \/ StartSyncLoop
    \/ StartGateway
    \/ TraceCommand
    \/ GatewayExit
    \/ Rerun

BootNext == BootSteps \/ AuthCheck

-----------------------------------------------------------------------------
(* Initial states: a container at the start of a boot *)

RemoteMarkers ==
    {NoMarker, Marker(""), Marker("not-a-date"),
     Marker("1970-01-01T00:00:00+00:00"),
     Marker("2026-01-01T00:00:00+00:00"), Marker("2026-02-01T00:00:00+00:00")}

LocalMarkers ==
    {NoMarker, Marker(""), Marker("not-a-date"),
     Marker("1969-12-31T23:59:59+00:00"),
     Marker("2026-01-01T00:00:00+00:00"), Marker("2026-02-01T00:00:00+00:00")}

ResidueDoc ==
    [agents |-> [defaults |-> [model |-> JStr(REF_ANTHROPIC)]],
     channels |-> [telegram |-> StaleTelegram]]

RemoteDoc ==
    [agents |-> [defaults |-> [model |-> JObj([primary |-> REF_CODEX])]],
     meta |-> [lastTouchedVersion |-> "2026.2.12"]]

STORE_ANTHROPIC ==
    Versioned(<<"anthropic", ":", "default">> :>
                  Cred("api_key", <<"anthropic">>, "sk-ant-stored", 0))
STORE_CODEX_BY_ID ==
    Versioned(<<"OpenAI-Codex", ":", "work">> :> Cred("token", <<>>, JWT_FRESH, 9000))
STORE_CODEX_EXPIRED ==
    Versioned(CODEX_DEFAULT :> Cred("token", CODEX, JWT_EXPIRED, 3000))
STORE_LEGACY_CODEX ==
    Legacy(<<"openai-codex", ":", "main">> :> Cred("", CODEX, JWT_FRESH, 0))
STORE_LEGACY_MIXED ==
    Legacy((<<"anthropic", ":", "work">> :> Cred("", <<"Anthropic">>, "", 0))
           @@ (<<"openai", ":", "work">> :> Cred("", <<>>, PLAIN_KEY, 0)))

AuthStores ==
    {NoFile, Broken, stringify(STORE_ANTHROPIC), stringify(STORE_CODEX_BY_ID),
     stringify(STORE_CODEX_EXPIRED), stringify(STORE_LEGACY_CODEX),
     stringify(STORE_LEGACY_MIXED)}

AuthDocs ==
    {EmptyObj,
     WithModel(JStr(REF_ANTHROPIC)),
     WithModel(JObj([primary |-> REF_CODEX])),
     WithModel(JObj([primary |-> REF_ANTHROPIC_CAPS, fallbacks |-> <<REF_CODEX>>])),
     WithModel(JStr(REF_URL)),
     WithModel(JStr(REF_NOSLASH))}

NoRemote ==
    [marker |-> NoMarker, layouts |-> {}, config |-> NoFile,
     authCurrent |-> NoFile, authLegacy |-> NoFile,
     workspace |-> {}, skills |-> {}]

NoTree == [dir |-> FALSE, files |-> {}]
NoSkills == [dir |-> FALSE, entries |-> {}]

MigIdle ==
    /\ min = NoFile
    /\ mtoken = ""
    /\ mout = NoFile
    /\ mfirst = NoFile
    /\ mcount = 0

SupIdle ==
    /\ procs = <<>>
    /\ req = <<>>
    /\ reply = <<>>
    /\ calls = 0

SyncIdle ==
    /\ loopPc = "idle"
    /\ loopFs = {}
    /\ SYNC_CONFIG = ""
    /\ loopLog = <<>>
    /\ loopPrev = <<>>
    /\ loopIter = 0

SumIdle ==
    /\ sumIn = <<>>
    /\ sumOut = <<>>
    /\ sumCount = 0

PushIdle ==
    /\ syncPc = ""
    /\ syncEnv = {}
    /\ syncFs = {}
    /\ execLog = <<>>
    /\ syncResult = <<>>
    /\ bucket = <<>>
    /\ syncCalls = 0

NoPush == [boot |-> 0, phase |-> ""]

\* no loop has been started
BgIdle ==
    /\ syncLoops = 0
    /\ lastPush = NoPush

RestIdle == SupIdle /\ SyncIdle /\ SumIdle /\ PushIdle /\ BgIdle

AuxIdle == MigIdle /\ RestIdle

PatchIdle ==
    /\ pin = NoFile
    /\ pdoc = NoFile
    /\ penv = BaseEnv
    /\ pfirst = NoFile
    /\ pcount = 0

BootStart ==
    /\ pc = "start"
    /\ RCLONE_AVAILABLE = FALSE
    /\ DO_RESTORE = FALSE
    /\ AUTH_RECONCILE_REQUIRED = FALSE
    /\ authStateFile = NoState
    /\ traceStateFile = NoFile
    /\ gatewayRunning = FALSE
    /\ writeBuf = <<>>
    /\ hist = FreshHist
    /\ PatchIdle
    /\ AuxIdle

RestoreEnv == WithR2([BaseEnv EXCEPT !.TELEGRAM_BOT_TOKEN = "tg-token"])

\* boots that differ in the two sync markers
InitMarkers ==
    /\ BootStart
    /\ env = RestoreEnv
    /\ localMarker \in LocalMarkers
    /\ configFile \in {NoFile, stringify(ResidueDoc)}
    /\ authFile = NoFile
    /\ oauthFile = FALSE
    /\ degradedMarker = NoDegraded
    /\ workspace = NoTree
    /\ skills = NoSkills
    /\ \E m \in RemoteMarkers :
         remote = [NoRemote EXCEPT !.marker = m, !.layouts = {"current"},
                                   !.config = stringify(RemoteDoc),
                                   !.workspace = MEMORY_FILES,
                                   !.skills = {"skill-a"}]

\* boots that differ in what the bucket holds
InitLayouts ==
    /\ BootStart
    /\ env = RestoreEnv
    /\ localMarker \in {NoMarker, Marker("2026-01-01T00:00:00+00:00")}
    /\ configFile \in {NoFile, stringify(ResidueDoc)}
    /\ authFile = NoFile
    /\ oauthFile = FALSE
    /\ degradedMarker = NoDegraded
    /\ workspace = NoTree
    /\ skills = NoSkills
    /\ \E lay \in {{}, {"current"}, {"nested"}, {"flat", "nested"}, {"flat"},
                    {"current", "flat", "nested"}},
          trees \in {<<{}, {}>>, <<MEMORY_FILES, {"skill-a"}>>, <<MEMORY_FILES, {}>>},
          ra \in {NoFile, stringify(STORE_CODEX_BY_ID)} :
         remote = [NoRemote EXCEPT !.marker = Marker("2026-02-01T00:00:00+00:00"),
                                   !.layouts = lay,
                                   !.config = stringify(RemoteDoc),
                                   !.authCurrent = ra,
                                   !.workspace = trees[1], !.skills = trees[2]]

\* boots without (complete) object-store credentials, with no config file,
\* one left by an earlier boot, or a damaged one
InitNoR2 ==
    /\ BootStart
    /\ env \in {BaseEnv, [WithR2(BaseEnv) EXCEPT !.CF_ACCOUNT_ID = ""]}
    /\ localMarker \in LocalMarkers
    /\ configFile \in {NoFile, stringify(ResidueDoc), FileText(ResidueDoc, "}")}
    /\ authFile = NoFile
    /\ oauthFile = FALSE
    /\ degradedMarker = NoDegraded
    /\ workspace = NoTree
    /\ skills = NoSkills
    /\ \E m \in RemoteMarkers :
         remote = [NoRemote EXCEPT !.marker = m, !.layouts = {"current"},
                                   !.config = stringify(RemoteDoc),
                                   !.workspace = MEMORY_FILES]

AuthEnvs ==
    {[BaseEnv EXCEPT !.OPENAI_API_KEY = o, !.ANTHROPIC_API_KEY = a] :
        o \in {"", PLAIN_KEY, JWT_FRESH, JWT_EXPIRED}, a \in {"", "sk-ant-env"}}

RemoteAuths ==
    {<<NoFile, NoFile>>,
     <<stringify(STORE_CODEX_BY_ID), stringify(STORE_ANTHROPIC)>>,
     <<NoFile, stringify(STORE_ANTHROPIC)>>,
     <<NoFile, stringify(STORE_LEGACY_MIXED)>>}

\* boots that differ in the configured model, the auth store and the
\* credentials of the environment
InitAuth ==
    /\ BootStart
    /\ env \in AuthEnvs
    /\ remote = NoRemote
    /\ localMarker = NoMarker
    /\ configFile \in {stringify(d) : d \in AuthDocs}
    /\ authFile \in AuthStores
    /\ oauthFile = FALSE
    /\ degradedMarker = NoDegraded
    /\ workspace = [dir |-> TRUE, files |-> MEMORY_FILES]
    /\ skills = [dir |-> TRUE, entries |-> {"skill-a"}]

RecoveryDocs ==
    {WithModel(JObj([primary |-> REF_CODEX])),
     WithModel(JObj([primary |-> REF_ANTHROPIC_CAPS, fallbacks |-> <<REF_CODEX>>]))}

\* boots that differ in what the recovery stages find: a remote auth
\* backup, a legacy OAuth file, a degraded marker of an earlier boot
InitRecovery ==
    /\ BootStart
    /\ \E o \in {"", JWT_FRESH}, r2 \in BOOLEAN, ra \in RemoteAuths :
         /\ env = IF r2 THEN WithR2([BaseEnv EXCEPT !.OPENAI_API_KEY = o])
                  ELSE [BaseEnv EXCEPT !.OPENAI_API_KEY = o]
         /\ (~r2 => ra = <<NoFile, NoFile>>)
         /\ remote = [NoRemote EXCEPT !.authCurrent = ra[1], !.authLegacy = ra[2]]
    /\ localMarker = NoMarker
    /\ configFile \in {stringify(d) : d \in RecoveryDocs}
    /\ authFile \in {NoFile, stringify(STORE_ANTHROPIC), stringify(STORE_LEGACY_CODEX)}
    /\ oauthFile \in BOOLEAN
    /\ degradedMarker \in {NoDegraded, [present |-> TRUE, provider |-> <<"anthropic">>]}
    /\ workspace = [dir |-> TRUE, files |-> MEMORY_FILES]
    /\ skills = [dir |-> TRUE, entries |-> {"skill-a"}]

STORE_GATEWAY ==
    Versioned(<<"cf-ai-gw-", "openai", ":", "default">> :>
                  Cred("api_key", <<>>, "cf-key", 0))

GatewayEnvs ==
    {[BaseEnv EXCEPT !.CF_AI_GATEWAY_MODEL = m,
                     !.CF_AI_GATEWAY_ACCOUNT_ID = "acct-1",
                     !.CF_AI_GATEWAY_GATEWAY_ID = "gw-1",
                     !.CLOUDFLARE_AI_GATEWAY_API_KEY = k,
                     !.ANTHROPIC_API_KEY = keys[1],
                     !.OPENAI_API_KEY = keys[2]] :
        m \in {<<"openai", "/", "gpt-4o">>, <<"Anthropic", "/", "claude-sonnet-4-5">>,
               REF_NOSLASH},
        k \in {"", "cf-key"},
        keys \in {<<"", "">>, <<"sk-ant-env", PLAIN_KEY>>}}

\* boots with a model of the AI gateway in the environment
InitGateway ==
    /\ BootStart
    /\ env \in GatewayEnvs
    /\ remote = NoRemote
    /\ localMarker = NoMarker
    /\ configFile = stringify(WithModel(JStr(REF_ANTHROPIC)))
    /\ authFile \in {NoFile, stringify(STORE_ANTHROPIC), stringify(STORE_GATEWAY)}
    /\ oauthFile = FALSE
    /\ degradedMarker = NoDegraded
    /\ workspace = [dir |-> TRUE, files |-> MEMORY_FILES]
    /\ skills = [dir |-> TRUE, entries |-> {"skill-a"}]

Init == InitMarkers \/ InitLayouts \/ InitNoR2 \/ InitAuth \/ InitRecovery \/ InitGateway

Next == BootNext

Spec == Init /\ [][Next]_vars

\* the script runs to its end unless it exits: bash executes the next command
FairSpec == Spec /\ WF_vars(Next)

-----------------------------------------------------------------------------
(* The patcher as a pure function of the config file and the environment *)

GatewayOpts ==
    {<<>>,
     <<[port |-> 1234, auth |-> [token |-> "old-token", mode |-> "token"]]>>,
     <<[port |-> 1234, auth |-> [token |-> "old-token", mode |-> "token"],
        controlUi |-> [allowInsecureAuth |-> TRUE], bind |-> "lan"]>>}

PluginOpts ==
    {<<>>,
     <<[load |-> [paths |-> <<EXTENSIONS_PATH>>]]>>,
     <<[load |-> [paths |-> <<"/opt/plugins">>],
        entries |-> ("trace-model" :> [enabled |-> FALSE])]>>}

MetaOpts == {<<>>, <<[lastTouchedVersion |-> "2026.2.12"]>>}

ModelsOpts ==
    {<<>>,
     <<[providers |-> (<<"custom">> :> [baseUrl |-> <<"https://", "llm.example.com">>,
                                        apiKey |-> "k", api |-> "openai-completions",
                                        models |-> <<>>])]>>}

AgentsOpts ==
    {<<>>,
     <<[defaults |-> [model |-> JStr(REF_ANTHROPIC)]]>>,
     <<[defaults |-> [model |-> JObj([primary |-> REF_CODEX,
                                      fallbacks |-> <<REF_ANTHROPIC>>])]]>>}

ChannelsOpts ==
    {<<>>,
     <<[telegram |-> StaleTelegram]>>,
     <<[discord |-> StaleDiscord, slack |-> StaleSlack]>>,
     <<[telegram |-> StaleTelegram, discord |-> StaleDiscord, slack |-> StaleSlack]>>}

GatewayModels == {<<>>, REF_WORKERS, REF_ANTHROPIC, <<"openai", "/", "gpt-4o">>, REF_NOSLASH}

PatchIdleBoot ==
    /\ pc = "idle"
    /\ env = BaseEnv
    /\ RCLONE_AVAILABLE = FALSE
    /\ DO_RESTORE = FALSE
    /\ AUTH_RECONCILE_REQUIRED = FALSE
    /\ localMarker = NoMarker
    /\ configFile = NoFile
    /\ authFile = NoFile
    /\ oauthFile = FALSE
    /\ authStateFile = NoState
    /\ degradedMarker = NoDegraded
    /\ traceStateFile = NoFile
    /\ workspace = NoTree
    /\ skills = NoSkills
    /\ remote = NoRemote
    /\ gatewayRunning = FALSE
    /\ writeBuf = <<>>
    /\ hist = FreshHist

\* documents and environments that differ in the gateway, plugin and
\* unrelated keys; files that do not parse are among the inputs
PatchInitGateway ==
    /\ \/ \E g \in GatewayOpts, p \in PluginOpts, m \in MetaOpts :
            pin = stringify(Opt("gateway", g) @@ Opt("plugins", p) @@ Opt("meta", m))
       \/ pin \in {NoFile, Partial, Broken,
                   writeJsonFileAtomic([channels |-> [telegram |-> StaleTelegram]])}
    /\ \E t \in {"", "gw-token"}, d \in {"", "true", "false"} :
         penv = [BaseEnv EXCEPT !.OPENCLAW_GATEWAY_TOKEN = t, !.OPENCLAW_DEV_MODE = d]

\* documents and environments that differ in the model-gateway override
PatchInitModel ==
    /\ \E m \in ModelsOpts, a \in AgentsOpts :
         pin = stringify(Opt("models", m) @@ Opt("agents", a))
    /\ \E ref \in GatewayModels, acct \in {"", "gw-acct"}, gw \in {"", "gw-1"},
          key \in {"", "gw-key"}, cf \in {"", "acct-1"} :
         penv = [BaseEnv EXCEPT !.CF_AI_GATEWAY_MODEL = ref,
                                !.CF_AI_GATEWAY_ACCOUNT_ID = acct,
                                !.CF_AI_GATEWAY_GATEWAY_ID = gw,
                                !.CLOUDFLARE_AI_GATEWAY_API_KEY = key,
                                !.CF_ACCOUNT_ID = cf]

\* documents and environments that differ in the chat platforms
PatchInitChannels ==
    /\ \E c \in ChannelsOpts : pin = stringify(Opt("channels", c))
    /\ \E tg \in {"", "tg-token"}, tp \in {"", "open", "allowlist"},
          ta \in {"", "111,222"}, dc \in {"", "dc-token"}, dp \in {"", "open"},
          sb \in {"", "xoxb-1"}, sa \in {"", "xapp-1"} :
         penv = [BaseEnv EXCEPT !.TELEGRAM_BOT_TOKEN = tg, !.TELEGRAM_DM_POLICY = tp,
                                !.TELEGRAM_DM_ALLOW_FROM = ta,
                                !.DISCORD_BOT_TOKEN = dc, !.DISCORD_DM_POLICY = dp,
                                !.SLACK_BOT_TOKEN = sb, !.SLACK_APP_TOKEN = sa]

PatchInit ==
    /\ PatchIdleBoot
    /\ AuxIdle
    /\ PatchInitGateway \/ PatchInitModel \/ PatchInitChannels
    /\ pdoc = pin
    /\ pfirst = NoFile
    /\ pcount = 0

\* lines 318-455 on the file the previous application left
ApplyPatch ==
    /\ pc = "idle"
    /\ pcount < MaxPatches
    /\ pdoc' = PatchedText(pdoc, penv)
    /\ pfirst' = IF pcount = 0 THEN PatchedText(pdoc, penv) ELSE pfirst
    /\ pcount' = pcount + 1
    /\ UNCHANGED <<bootVars, pin, penv, auxVars>>

NextPatch == ApplyPatch

SpecPatch == PatchInit /\ [][NextPatch]_vars

-----------------------------------------------------------------------------
(* The Codex script as a function of the auth store and OPENAI_API_KEY *)

\* lines 721-762: the store file after one run of the script
CodexResult(storeFile, token) ==
    LET writes == CodexWrites(storeFile, [BaseEnv EXCEPT !.OPENAI_API_KEY = token])
    IN  IF writes = <<>> THEN storeFile ELSE writes[Len(writes)]

STORE_LEGACY_ANTHROPIC ==
    Legacy(<<"anthropic", ":", "work">> :> Cred("", <<"Anthropic">>, "sk-ant-stored", 0))
STORE_LEGACY_BY_ID ==
    Legacy((<<"openai-codex", ":", "main">> :> Cred("", <<>>, JWT_EXPIRED, 0))
           @@ (<<"anthropic">> :> Cred("", <<>>, "sk-ant-stored", 0)))
STORE_LEGACY_KEYLESS ==
    Legacy(<<"anthropic", ":", "work">> :> Cred("", <<"anthropic">>, "", 0))
STORE_EXTRAS ==
    [Versioned(<<"anthropic", ":", "default">> :>
                  Cred("api_key", <<"anthropic">>, "sk-ant-stored", 0))
        EXCEPT !.version = 2, !.extras = TRUE]

MigrationStores ==
    {NoFile, Broken, stringify(Legacy(EmptyObj)), stringify(EmptyStore),
     stringify(STORE_ANTHROPIC), stringify(STORE_CODEX_BY_ID),
     stringify(STORE_CODEX_EXPIRED), stringify(STORE_EXTRAS),
     stringify(STORE_LEGACY_CODEX), stringify(STORE_LEGACY_MIXED),
     stringify(STORE_LEGACY_ANTHROPIC), stringify(STORE_LEGACY_BY_ID),
     stringify(STORE_LEGACY_KEYLESS)}

MigrationTokens == {"", PLAIN_KEY, JWT_FRESH, JWT_EXPIRED, JWT_NOEXP, JWT_OPAQUE}

MigInit ==
    /\ PatchIdleBoot
    /\ PatchIdle
    /\ RestIdle
    /\ min \in MigrationStores
    /\ mtoken \in MigrationTokens
    /\ mout = min
    /\ mfirst = NoFile
    /\ mcount = 0

\* lines 641-762 on the store the previous run left
RunCodexScript ==
    /\ pc = "idle"
    /\ mcount < MaxMigrations
    /\ mout' = CodexResult(mout, mtoken)
    /\ mfirst' = IF mcount = 0 THEN CodexResult(mout, mtoken) ELSE mfirst
    /\ mcount' = mcount + 1
    /\ UNCHANGED <<bootVars, patchVars, min, mtoken, restVars>>

NextMigrate == RunCodexScript

SpecMigrate == MigInit /\ [][NextMigrate]_vars

-----------------------------------------------------------------------------
(* Claims about the patcher *)

CountOf(list, x) == Cardinality({i \in DOMAIN list : list[i] = x})

PluginPaths(f) == f.doc["plugins"]["load"]["paths"]

\* C5: applying the patcher again to its own output, in the same
\* environment, leaves the file as the first application wrote it, and the
\* plugin search path holds the extensions path exactly once
C5_PatchIdempotent ==
    /\ pcount >= 1 => CountOf(PluginPaths(pdoc), EXTENSIONS_PATH) = 1
    /\ pcount >= 2 => pdoc = pfirst

\* the patcher ran twice on a document whose path list lacked the
\* extensions path
C5_Witness ==
    /\ pcount = 2
    /\ parse(pin).ok
    /\ Has(pin.doc, "plugins")
    /\ ~includes(pin.doc["plugins"]["load"]["paths"], EXTENSIONS_PATH)
    /\ includes(PluginPaths(pdoc), EXTENSIONS_PATH)

Channel(f, name) == GetOr(GetOr(f.doc, "channels", EmptyObj), name, EmptyObj)

TelegramFields(e) ==
    {"botToken", "enabled", "dmPolicy"}
    \cup (IF e.TELEGRAM_DM_ALLOW_FROM # "" \/ e.TELEGRAM_DM_POLICY = "open"
          THEN {"allowFrom"} ELSE {})

\* C6: with a platform's secrets in the environment the patched subtree of
\* that platform has exactly the patcher's fields, whatever the subtree
\* held before, and an open DM policy without an allow-list gets ["*"]
C6_ChannelsReplaced ==
    pcount >= 1 =>
      /\ penv.TELEGRAM_BOT_TOKEN # "" =>
           /\ DOMAIN Channel(pdoc, "telegram") = TelegramFields(penv)
           /\ Channel(pdoc, "telegram")["botToken"] = penv.TELEGRAM_BOT_TOKEN
           /\ Channel(pdoc, "telegram")["enabled"] = TRUE
           /\ (penv.TELEGRAM_DM_POLICY = "open" /\ penv.TELEGRAM_DM_ALLOW_FROM = "")
                => Channel(pdoc, "telegram")["allowFrom"] = <<"*">>
      /\ penv.DISCORD_BOT_TOKEN # "" =>
           /\ DOMAIN Channel(pdoc, "discord") = {"token", "enabled", "dm"}
           /\ Channel(pdoc, "discord")["token"] = penv.DISCORD_BOT_TOKEN
           /\ penv.DISCORD_DM_POLICY = "open"
                => Channel(pdoc, "discord")["dm"] = [policy |-> "open", allowFrom |-> <<"*">>]
           /\ penv.DISCORD_DM_POLICY # "open"
                => DOMAIN Channel(pdoc, "discord")["dm"] = {"policy"}
      /\ (penv.SLACK_BOT_TOKEN # "" /\ penv.SLACK_APP_TOKEN # "") =>
           Channel(pdoc, "slack") = [botToken |-> penv.SLACK_BOT_TOKEN,
                                     appToken |-> penv.SLACK_APP_TOKEN,
                                     enabled |-> TRUE]

\* a stale telegram subtree with keys of its own was patched with a
\* Telegram token and an open policy in the environment
C6_Witness ==
    /\ pcount = 1
    /\ penv.TELEGRAM_BOT_TOKEN # ""
    /\ penv.TELEGRAM_DM_POLICY = "open"
    /\ penv.TELEGRAM_DM_ALLOW_FROM = ""
    /\ penv.SLACK_BOT_TOKEN # "" /\ penv.SLACK_APP_TOKEN # ""
    /\ "groupPolicy" \in DOMAIN Channel(pin, "telegram")
    /\ "signingSecret" \in DOMAIN Channel(pin, "slack")
    /\ Channel(pdoc, "telegram")["allowFrom"] = <<"*">>

Subtree(f, k) == IF Has(f.doc, k) THEN <<f.doc[k]>> ELSE <<>>

ModelSubtreesKept == Subtree(pdoc, "models") = Subtree(pin, "models")
                     /\ Subtree(pdoc, "agents") = Subtree(pin, "agents")

\* what the claim expects of each override reference: <<provider, model id>>
ExpectedOverride(ref) ==
    CASE ref = REF_WORKERS ->
            <<(<<"workers-ai">>), (<<"@cf", "/", "meta", "/", "llama-3.3-70b">>)>>
      [] ref = REF_ANTHROPIC -> <<(<<"anthropic">>), (<<"claude-sonnet-4-5">>)>>
      [] ref = <<"openai", "/", "gpt-4o">> -> <<(<<"openai">>), (<<"gpt-4o">>)>>
      [] OTHER -> <<(<<>>), ref>>

SyntheticProvider(ref) == <<"cf-ai-gw-">> \o ExpectedOverride(ref)[1]

OverrideInstalled ==
    /\ Has(pdoc.doc, "models") /\ Has(pdoc.doc["models"], "providers")
    /\ SyntheticProvider(penv.CF_AI_GATEWAY_MODEL)
         \in DOMAIN pdoc.doc["models"]["providers"]
    /\ pdoc.doc["models"]["providers"][SyntheticProvider(penv.CF_AI_GATEWAY_MODEL)].apiKey
         = penv.CLOUDFLARE_AI_GATEWAY_API_KEY
    /\ pdoc.doc["agents"]["defaults"]["model"]
         = JObj([primary |-> SyntheticProvider(penv.CF_AI_GATEWAY_MODEL) \o <<"/">>
                             \o ExpectedOverride(penv.CF_AI_GATEWAY_MODEL)[2]])

IdentifierMissing ==
    \/ penv.CF_AI_GATEWAY_ACCOUNT_ID = ""
    \/ penv.CF_AI_GATEWAY_GATEWAY_ID = ""

\* the Workers AI route that needs no gateway: lines 387-388
DirectWorkersAi ==
    /\ ExpectedOverride(penv.CF_AI_GATEWAY_MODEL)[1] = <<"workers-ai">>
    /\ penv.CF_ACCOUNT_ID # ""

\* C7 as claimed: with the reference set and an identifier or the API key
\* missing, models and agents are those of the input
C7_SkippedWhenIdentifierMissing ==
    (pcount >= 1 /\ parse(pin).ok /\ penv.CF_AI_GATEWAY_MODEL # <<>>) =>
      /\ (IdentifierMissing \/ penv.CLOUDFLARE_AI_GATEWAY_API_KEY = "")
           => ModelSubtreesKept
      /\ ~(IdentifierMissing \/ penv.CLOUDFLARE_AI_GATEWAY_API_KEY = "")
           => OverrideInstalled

\* C7 amended: the override is skipped as a whole when the API key is
\* missing, or when a gateway identifier is missing and the reference is not
\* a workers-ai one with CF_ACCOUNT_ID set; otherwise the provider entry and
\* the primary model are installed together
C7_SkippedOrWhole ==
    (pcount >= 1 /\ parse(pin).ok /\ penv.CF_AI_GATEWAY_MODEL # <<>>) =>
      IF penv.CLOUDFLARE_AI_GATEWAY_API_KEY = ""
         \/ (IdentifierMissing /\ ~DirectWorkersAi)
      THEN ModelSubtreesKept
      ELSE OverrideInstalled

\* a workers-ai override was installed without a gateway id, through the
\* account's own endpoint, on a document with models and agents of its own
C7_Witness ==
    /\ pcount = 1
    /\ parse(pin).ok
    /\ penv.CF_AI_GATEWAY_MODEL = REF_WORKERS
    /\ IdentifierMissing
    /\ DirectWorkersAi
    /\ penv.CLOUDFLARE_AI_GATEWAY_API_KEY # ""
    /\ Has(pin.doc, "models") /\ Has(pin.doc, "agents")
    /\ OverrideInstalled
    /\ ~ModelSubtreesKept

-----------------------------------------------------------------------------
(* Claims about the boot *)

Decided == pc \notin {"start", "exited", "decide", "idle"}

\* the timestamps the resolver had in hand: a marker is present when
\* reading it gave a non-empty text
DecidedR2Time ==
    IF RCLONE_AVAILABLE /\ hist.readOk THEN CatOrEmpty(hist.decidedRemote) ELSE ""
DecidedLocalTime == CatOrEmpty(hist.decidedLocal)

\* C1: the restore decision is true exactly when the remote timestamp is
\* present and the local one is absent or has a strictly smaller epoch, an
\* unparsable timestamp counting as epoch 0; equal timestamps and an absent
\* remote timestamp give false
C1_RestoreDecision ==
    Decided =>
      /\ DO_RESTORE <=>
           /\ DecidedR2Time # ""
           /\ \/ DecidedLocalTime = ""
              \/ DateEpoch(DecidedR2Time) > DateEpoch(DecidedLocalTime)
      /\ DecidedR2Time = "" => ~DO_RESTORE
      /\ (DecidedR2Time = DecidedLocalTime) => ~DO_RESTORE
      /\ (DecidedR2Time = "not-a-date" /\ DecidedLocalTime = "2026-01-01T00:00:00+00:00")
           => ~DO_RESTORE
      /\ (DecidedR2Time = "2026-01-01T00:00:00+00:00" /\ DecidedLocalTime = "not-a-date")
           => DO_RESTORE

\* the resolver compared two equal, parsable timestamps and said no
C1_Witness ==
    /\ pc = "restore_config"
    /\ DecidedR2Time = "2026-01-01T00:00:00+00:00"
    /\ DecidedLocalTime = "2026-01-01T00:00:00+00:00"
    /\ ~DO_RESTORE

RestoreDone ==
    pc \in {"onboard", "patch", "patch_write", "auth_check", "auth_remote", "codex",
            "codex_open", "codex_write", "refresh", "marker", "verify",
            "sync_loop", "start_gateway", "gateway"}

\* C2: the resolver runs once per boot, before the remote marker is copied
\* over the local one; the restore steps and the restore warning follow the
\* latched decision, so workspace and skills are restored although the local
\* marker already equals the remote one
C2_DecisionLatched ==
    /\ hist.resolverCalls <= 1
    /\ Decided => hist.resolverCalls = 1
    /\ hist.markerCopied => hist.resolverCalls = 1
    /\ Decided =>
         DO_RESTORE = should_restore_from_r2(RCLONE_AVAILABLE, DecidedR2Time,
                                             DecidedLocalTime)
    /\ (RestoreDone /\ pc # "gateway") =>
         /\ hist.wsRestored <=> (DO_RESTORE /\ remote.workspace # {})
         /\ hist.skillsRestored <=> (DO_RESTORE /\ remote.skills # {})
         /\ hist.wsRestored => remote.workspace \subseteq workspace.files
         /\ hist.skillsRestored => remote.skills \subseteq skills.entries
    /\ hist.firstChecked => (hist.restoreWarning <=> (DO_RESTORE /\ hist.firstMismatch))

\* the config restore made the local marker equal to the remote one, and
\* workspace and skills were restored after it
C2_Witness ==
    /\ pc = "onboard"
    /\ hist.markerCopied
    /\ localMarker = remote.marker
    /\ hist.decidedLocal # remote.marker
    /\ hist.wsRestored
    /\ hist.skillsRestored

\* C3: neither the config file nor the auth store is ever on disk in a
\* partially written state
C3_NoPartialWrite == configFile.st # "partial" /\ authFile.st # "partial"

\* the container was stopped while the patcher's write was under way
C3_Witness ==
    /\ pc = "aborted"
    /\ hist.abortedAt = "killed"
    /\ configFile.st = "partial"

\* C4: after a completed write of the config file, by the patcher or by
\* /trace on and /trace off, the file is valid JSON
C4_ValidAfterWrite ==
    /\ (pc = "auth_check" /\ hist.patched) => ValidJson(configFile)
    /\ (pc = "gateway" /\ hist.traced # "") => ValidJson(configFile)

\* /trace on has rewritten a valid config file and left the two characters
\* of the installed trailer after the document
C4_Witness ==
    /\ pc = "gateway"
    /\ hist.traced = "on"
    /\ configFile.st = "text"
    /\ configFile.tail = INSTALLED_TRAILER
    /\ ~ValidJson(configFile)

\* the patcher's own completed write is valid JSON
C4_PatcherWriteValid == (pc = "auth_check" /\ hist.patched) => ValidJson(configFile)

\* the primary model reference of the config document on disk
PrimaryRef ==
    IF ~ValidJson(configFile) \/ ~Has(configFile.doc, "agents") THEN <<>>
    ELSE IF ~Has(configFile.doc["agents"], "defaults") THEN <<>>
    ELSE IF ~Has(configFile.doc["agents"]["defaults"], "model") THEN <<>>
    ELSE LET m == configFile.doc["agents"]["defaults"]["model"]
         IN  IF m.t = "string" THEN m.s
             ELSE IF Has(m.o, "primary") THEN m.o["primary"] ELSE <<>>

\* the provider each reference of the model names, <<>> where it names none
ListedRefs ==
    {<<>>, REF_ANTHROPIC, REF_CODEX, REF_ANTHROPIC_CAPS, REF_URL, REF_NOSLASH,
     <<"openai", "/", "gpt-4o">>, <<"cloudflare-ai-gateway", "/", "claude">>,
     <<"cf-ai-gw-", "openai", "/", "gpt-4o">>,
     <<"cf-ai-gw-", "Anthropic", "/", "claude-sonnet-4-5">>,
     <<"cf-ai-gw-", "/">> \o REF_NOSLASH}

ExpectedProvider(ref) ==
    CASE ref \in {REF_ANTHROPIC, REF_ANTHROPIC_CAPS} -> <<"anthropic">>
      [] ref = REF_CODEX -> <<"openai-codex">>
      [] ref = <<"openai", "/", "gpt-4o">> -> <<"openai">>
      [] ref = <<"cloudflare-ai-gateway", "/", "claude">> -> <<"cloudflare-ai-gateway">>
      [] ref = <<"cf-ai-gw-", "openai", "/", "gpt-4o">> -> <<"cf-ai-gw-", "openai">>
      [] ref = <<"cf-ai-gw-", "Anthropic", "/", "claude-sonnet-4-5">> ->
             <<"cf-ai-gw-", "anthropic">>
      [] ref = <<"cf-ai-gw-", "/">> \o REF_NOSLASH -> <<"cf-ai-gw-">>
      [] OTHER -> <<>>

EnvSatisfies(p) ==
    \/ p = <<"anthropic">> /\ (env.ANTHROPIC_API_KEY # "" \/ env.ANTHROPIC_OAUTH_TOKEN # "")
    \/ p = <<"openai">> /\ env.OPENAI_API_KEY # ""

\* the text of a profile id before its first ":", the whole id without one
IdPrefix(id) == IF indexOf(id, ":") < 0 THEN <<>> ELSE substring(id, 0, indexOf(id, ":"))

StoreSatisfies(f, p) ==
    /\ ValidJson(f)
    /\ \E id \in DOMAIN f.doc.map :
          \/ toLowerCase(f.doc.map[id].provider) = p
          \/ toLowerCase(IdPrefix(id)) = p

ExpectedMismatch(f) ==
    /\ ExpectedProvider(PrimaryRef) # <<>>
    /\ ~EnvSatisfies(ExpectedProvider(PrimaryRef))
    /\ ~StoreSatisfies(f, ExpectedProvider(PrimaryRef))

\* C8: the first auth check of a boot, when it ran to its end, reports a
\* mismatch exactly when the primary model names a provider and neither an
\* environment credential of that provider nor a profile of the auth store,
\* by provider field or by id prefix without regard to case, satisfies it
C8_MismatchExact ==
    (pc = "auth_remote" /\ ~hist.crashed) =>
      /\ PrimaryRef \in ListedRefs
      /\ AUTH_RECONCILE_REQUIRED <=> ExpectedMismatch(authFile)
      /\ authStateFile.state.mismatch <=> ExpectedMismatch(authFile)
      /\ authStateFile.state.primaryProvider = ExpectedProvider(PrimaryRef)
      /\ ExpectedProvider(PrimaryRef) = <<>> => ~AUTH_RECONCILE_REQUIRED

\* the check found the provider satisfied by a profile whose id prefix
\* differs from it in case only
C8_Witness ==
    /\ pc = "auth_remote"
    /\ PrimaryRef = REF_CODEX
    /\ authFile = stringify(STORE_CODEX_BY_ID)
    /\ ~EnvSatisfies(<<"openai-codex">>)
    /\ ~AUTH_RECONCILE_REQUIRED

\* C9, by the boot's own flag: when the last check of the boot reported a
\* mismatch, the degraded marker names the provider and the boot has not
\* been aborted
C9_MarkerWritten ==
    (pc \in {"verify", "start_gateway"} /\ AUTH_RECONCILE_REQUIRED) =>
      /\ degradedMarker.present
      /\ degradedMarker.provider = ExpectedProvider(PrimaryRef)
      /\ hist.abortedAt = ""

\* C9: when the mismatch the boot first detected is still what the config
\* and the auth store on disk amount to after the last recovery stage, the
\* degraded marker is on disk and names the provider
C9_UnresolvedLeavesMarker ==
    (pc \in {"verify", "start_gateway"} /\ hist.firstMismatch
       /\ ExpectedMismatch(authFile)) =>
      /\ degradedMarker.present
      /\ degradedMarker.provider = ExpectedProvider(PrimaryRef)

\* C9, the way to the gateway: from the marker step on every step of the
\* boot leads on towards the gateway start, whatever the check reported
C9_GatewayStillStarts ==
    [][/\ pc = "marker" => pc' = "verify"
       /\ pc = "verify" => pc' = "sync_loop"
       /\ pc = "sync_loop" => pc' = "start_gateway"
       /\ pc = "start_gateway" => (pc' = "gateway" /\ gatewayRunning')]_vars

\* the gateway is about to start with the degraded marker on disk
C9_MarkerCase ==
    /\ pc = "start_gateway"
    /\ AUTH_RECONCILE_REQUIRED
    /\ hist.markerWritten
    /\ degradedMarker.provider = <<"openai-codex">>

\* the gateway is about to start, the provider the first check missed is
\* still missing from the store on disk, and there is no degraded marker
C9_Witness ==
    /\ pc = "start_gateway"
    /\ hist.firstMismatch
    /\ ExpectedMismatch(authFile)
    /\ ~AUTH_RECONCILE_REQUIRED
    /\ ~degradedMarker.present

\* C10: at gateway start the degraded marker is on disk only if the check
\* of the current config and auth store still reports a mismatch, and a
\* mismatch that a recovery stage resolved leaves none
C10_MarkerOnlyIfMismatch ==
    pc = "start_gateway" =>
      (degradedMarker.present
         => check_auth_provider_state(configFile, authFile, env).mismatch)

\* the environment bootstrap installed the missing profile, no check
\* followed it, and the gateway is about to start with a degraded marker
C10_Witness ==
    /\ pc = "start_gateway"
    /\ hist.firstMismatch
    /\ degradedMarker.present
    /\ hist.markerWritten
    /\ ~check_auth_provider_state(configFile, authFile, env).mismatch

-----------------------------------------------------------------------------
(* Claims about the legacy migration *)

MigInput == parse(min)

IsLegacyInput == MigInput.ok /\ MigInput.value.shape = "legacy"

\* the providers of the legacy entries that hold a credential
LegacyProviders ==
    {LegacyProviderId(id, MigInput.value.map[id]) :
        id \in {i \in DOMAIN MigInput.value.map : MigInput.value.map[i].secret # ""}}

\* C11: migrating a flat legacy store gives a versioned store with a
\* profile '<provider>:default' for every legacy entry that holds a
\* credential, and migrating the result again leaves it as it is
C11_MigrationIdempotent ==
    /\ (mcount >= 1 /\ IsLegacyInput /\ LegacyProviders # {}) =>
         /\ ValidJson(mfirst)
         /\ mfirst.doc.shape = "versioned"
         /\ mfirst.doc.version = 1
         /\ \A p \in LegacyProviders :
               /\ (p \o <<":", "default">>) \in DOMAIN mfirst.doc.map
               /\ mfirst.doc.map[p \o <<":", "default">>].provider = p
               /\ mfirst.doc.map[p \o <<":", "default">>].secret # ""
    /\ (mcount >= 1 /\ mtoken = "" /\ ~(IsLegacyInput /\ LegacyProviders # {})) =>
         mfirst = min
    /\ mcount >= 2 => mout = mfirst

\* a legacy store with an openai-codex entry was migrated, and the script
\* ran again on the result
C11_Witness ==
    /\ mcount = 2
    /\ min = stringify(STORE_LEGACY_CODEX)
    /\ mtoken = ""
    /\ mout # min
    /\ CODEX_DEFAULT \in DOMAIN mout.doc.map
    /\ mout.doc.map[CODEX_DEFAULT].type = "token"

-----------------------------------------------------------------------------
(* Claims about the restoration *)

RESTORE_STEPS == {"restore_config", "restore_workspace", "restore_skills"}

\* C14: a failed copy of the config, workspace or skills tree does not
\* end the boot: no boot stops in one of the three restore steps
C14_RestoreBestEffort == hist.abortedAt \notin RESTORE_STEPS

\* the copy of the workspace tree failed and the script has exited under
\* set -e, with no gateway started
C14_Witness ==
    /\ pc = "aborted"
    /\ hist.abortedAt = "restore_workspace"
    /\ DO_RESTORE
    /\ ~gatewayRunning
    /\ ~hist.patched

-----------------------------------------------------------------------------
(* The process supervisor and the public HTTP routes *)

PIDS == 1..MaxProcs
CALLERS == {"a", "b"}

\* a process of the sandbox: "script" is the boot script before its guard,
\* "booting" the script after it, "gateway" the gateway it exec'ed, "hung"
\* a gateway that no longer answers, "orphan" a gateway child that outlived
\* the kill of its process, "done" a process that has ended
LISTED == {"script", "booting", "gateway", "hung"}
GATEWAYS == {"gateway", "hung", "orphan"}
ANSWERING == {"gateway", "orphan"}

Live(ps, kinds) == {p \in DOMAIN ps : ps[p] \in kinds}

pgrepNothing(ps) == FALSE

\* start-openclaw.sh line 13: pgrep -f "openclaw gateway"
pgrepGateway(ps) == Live(ps, GATEWAYS) # {}

\* what findExistingMoltbotProcess can return: a tracked process, 0 for null
findExisting(ps) == IF Live(ps, LISTED) = {} THEN {0} ELSE Live(ps, LISTED)

\* probeGatewayHttp: the gateway's port answers
probeGatewayHttp(ps) == Live(ps, ANSWERING) # {}

NoId == [kind |-> "absent", id |-> 0]
Untracked == [kind |-> "untracked", id |-> 0]
ProcId(p) == [kind |-> "id", id |-> p]

\* process?.id || 'untracked'
IdOrUntracked(found) == IF found # 0 THEN ProcId(found) ELSE Untracked

\* the outcome of an awaited call: it rejected, or it gave a value
Raised == [raised |-> TRUE, value |-> 0]
Gave(v) == [raised |-> FALSE, value |-> v]
NotCalled == [raised |-> FALSE, value |-> -1]

IdleReq == [op |-> "idle", pc |-> "", listed |-> {}]

NoBody == [ok |-> FALSE, status |-> "", processId |-> NoId, killed |-> -1, error |-> FALSE]

\* what a force-restart went through: the processes enumerated, the kill
\* calls that raised, and how the cleanup pass ended
NoRestart == [listed |-> {}, failed |-> {}, cleanup |-> ""]

NoReply ==
    [op |-> "", http |-> 0, body |-> NoBody, lookup |-> NotCalled, probe |-> NotCalled,
     seen |-> "", spawned |-> 0, restart |-> NoRestart]

\* c.json(body) answers 200, c.json(body, status) answers status
json(body, status) == [http |-> status, body |-> body]

statusRunningOnlyWithProcess(lookup, probe) ==
    IF lookup.raised \/ probe.raised
    THEN json([NoBody EXCEPT !.status = "error", !.error = TRUE], 200)
    ELSE IF lookup.value = 0
    THEN json([NoBody EXCEPT !.status = "not_running"], 200)
    ELSE IF probe.value = 1
    THEN json([NoBody EXCEPT !.ok = TRUE, !.status = "running",
                             !.processId = ProcId(lookup.value)], 200)
    ELSE json([NoBody EXCEPT !.status = "not_responding",
                             !.processId = ProcId(lookup.value)], 200)

\* part_002 lines 37-53: GET /api/status
statusHandler(lookup, probe) ==
    IF lookup.raised \/ probe.raised
    THEN json([NoBody EXCEPT !.status = "error", !.error = TRUE], 200)
    ELSE IF probe.value = 1
    THEN json([NoBody EXCEPT !.ok = TRUE, !.status = "running",
                             !.processId = IdOrUntracked(lookup.value)], 200)
    ELSE IF lookup.value = 0
    THEN json([NoBody EXCEPT !.status = "not_running"], 200)
    ELSE json([NoBody EXCEPT !.status = "not_responding",
                             !.processId = ProcId(lookup.value)], 200)

\* part_002 lines 76-80
startOk(found) ==
    json([NoBody EXCEPT !.ok = TRUE, !.status = "running",
                        !.processId = IdOrUntracked(found)], 200)

\* part_002 lines 81-87 and 129-134
internalError == json([NoBody EXCEPT !.error = TRUE], 500)

\* part_002 lines 124-128
restartOk(processes) ==
    json([NoBody EXCEPT !.ok = TRUE, !.killed = Cardinality(processes)], 200)

notSup == <<bootVars, patchVars, migVars, syncVars, sumVars, pushVars, bgVars>>

Answer(c, r, lookup, probe) ==
    /\ reply' = [reply EXCEPT ![c] =
                    [op |-> req[c].op, http |-> r.http, body |-> r.body,
                     lookup |-> lookup, probe |-> probe, seen |-> @.seen,
                     spawned |-> @.spawned, restart |-> @.restart]]
    /\ req' = [req EXCEPT ![c] = IdleReq]

Goto(c, to) == req' = [req EXCEPT ![c].pc = to]

FIRST_STEP == [status |-> "lookup", start |-> "ensure_check", restart |-> "list"]

\* a caller sends GET /api/status, POST /api/start or POST /api/force-restart
Request(c) ==
    /\ req[c].op = "idle"
    /\ calls < MaxCalls
    /\ \E op \in DOMAIN FIRST_STEP :
         req' = [req EXCEPT ![c] = [IdleReq EXCEPT !.op = op, !.pc = FIRST_STEP[op]]]
    /\ reply' = [reply EXCEPT ![c] = NoReply]
    /\ calls' = calls + 1
    /\ UNCHANGED <<procs, notSup>>

\* part_002 line 38
StatusLookup(c) ==
    /\ req[c].pc = "lookup"
    /\ \/ Answer(c, statusHandler(Raised, NotCalled), Raised, NotCalled)
       \/ \E found \in findExisting(procs) :
            /\ Goto(c, "probe")
            /\ reply' = [reply EXCEPT ![c].lookup = Gave(found)]
    /\ UNCHANGED <<procs, calls, notSup>>

\* part_002 lines 39-46
StatusProbe(c) ==
    /\ req[c].pc = "probe"
    /\ \E probe \in {Raised, Gave(IF probeGatewayHttp(procs) THEN 1 ELSE 0)} :
         Answer(c, statusHandler(reply[c].lookup, probe), reply[c].lookup, probe)
    /\ UNCHANGED <<procs, calls, notSup>>

\* ensureRunning: a healthy instance found and answering is left alone
EnsureCheck(c) ==
    /\ req[c].pc = "ensure_check"
    /\ \/ Answer(c, internalError, Raised, NotCalled)
       \/ \E found \in findExisting(procs) :
            /\ Goto(c, IF found # 0 /\ probeGatewayHttp(procs)
                       THEN "start_lookup" ELSE "ensure_spawn")
            /\ reply' = [reply EXCEPT ![c].lookup = Gave(found),
                                      ![c].probe = Gave(IF probeGatewayHttp(procs)
                                                        THEN 1 ELSE 0),
                                      ![c].seen = IF found # 0 /\ probeGatewayHttp(procs)
                                                  THEN "healthy" ELSE "unhealthy"]
    /\ UNCHANGED <<procs, calls, notSup>>

\* ensureRunning: otherwise the boot script is started as a new process;
\* a start failure is surfaced to the caller
EnsureSpawn(c) ==
    /\ req[c].pc = "ensure_spawn"
    /\ \/ /\ Answer(c, internalError, reply[c].lookup, reply[c].probe)
          /\ UNCHANGED procs
       \/ \E p \in PIDS :
            /\ procs[p] = "free"
            /\ \A q \in 1..(p - 1) : procs[q] # "free"
            /\ procs' = [procs EXCEPT ![p] = "script"]
            /\ Goto(c, "ensure_wait")
            /\ reply' = [reply EXCEPT ![c].spawned = p]
    /\ UNCHANGED <<calls, notSup>>

\* ensureRunning: it waits for the gateway to answer, and gives up with an
\* error when the wait runs out
EnsureWait(c) ==
    /\ req[c].pc = "ensure_wait"
    /\ IF probeGatewayHttp(procs)
       THEN Goto(c, "start_lookup") /\ UNCHANGED reply
       ELSE Answer(c, internalError, reply[c].lookup, reply[c].probe)
    /\ UNCHANGED <<procs, calls, notSup>>

\* part_002 lines 75-80
StartReply(c) ==
    /\ req[c].pc = "start_lookup"
    /\ \/ Answer(c, internalError, Raised, reply[c].probe)
       \/ \E found \in findExisting(procs) :
            Answer(c, startOk(found), Gave(found), reply[c].probe)
    /\ UNCHANGED <<procs, calls, notSup>>

\* part_002 line 95
RestartList(c) ==
    /\ req[c].pc = "list"
    /\ \/ Answer(c, internalError, Raised, NotCalled)
       \/ /\ req' = [req EXCEPT ![c].pc = "kill", ![c].listed = Live(procs, LISTED)]
          /\ reply' = [reply EXCEPT ![c].restart.listed = Live(procs, LISTED)]
    /\ UNCHANGED <<procs, calls, notSup>>

\* part_002 lines 98-104 without the try/catch around proc.kill(): a kill
\* that raises reaches the outer catch of the handler
RestartKillAborting(c) ==
    /\ req[c].pc = "kill"
    /\ \E killed \in SUBSET req[c].listed :
         /\ procs' = [p \in PIDS |->
                         IF p \in killed /\ procs[p] \in LISTED THEN "done" ELSE procs[p]]
         /\ IF killed = req[c].listed
            THEN /\ Goto(c, "cleanup")
                 /\ UNCHANGED reply
            ELSE /\ reply' = [reply EXCEPT ![c] =
                                 [@ EXCEPT !.op = req[c].op, !.http = internalError.http,
                                           !.body = internalError.body,
                                           !.restart.failed = req[c].listed \ killed]]
                 /\ req' = [req EXCEPT ![c] = IdleReq]
    /\ UNCHANGED <<calls, notSup>>

\* part_002 lines 98-104: every listed process is killed, a failed kill is
\* ignored, and a killed process may leave its gateway child behind
RestartKill(c) ==
    /\ req[c].pc = "kill"
    /\ \E killed \in SUBSET req[c].listed :
       \E left \in SUBSET {p \in killed : procs[p] \in {"gateway", "hung"}} :
         /\ procs' = [p \in PIDS |->
                         IF p \in left THEN "orphan"
                         ELSE IF p \in killed /\ procs[p] \in LISTED THEN "done"
                         ELSE procs[p]]
         /\ reply' = [reply EXCEPT ![c].restart.failed = req[c].listed \ killed]
    /\ Goto(c, "cleanup")
    /\ UNCHANGED <<calls, notSup>>

\* the pkill pass of part_002 lines 109-110 ends every gateway and boot
\* script it reaches; each pkill is cut after 2 s and its failure ignored
pkillPass(ps, reached) ==
    [p \in PIDS |-> IF reached /\ ps[p] \in LISTED \cup GATEWAYS THEN "done" ELSE ps[p]]

\* waitForProcess(proc, 5000) gives up after its timeout: the cleanup
\* process has exited, is still running, or the wait raised
WAIT_OUTCOMES == {"exited", "timed_out", "failed"}

\* part_002 lines 108-111: sandbox.startProcess of the cleanup command; a
\* raise is caught by the inner catch and the answer is sent
RestartCleanup(c) ==
    /\ req[c].pc = "cleanup"
    /\ \/ /\ reply' = [reply EXCEPT ![c] =
                            [@ EXCEPT !.op = req[c].op, !.http = restartOk(req[c].listed).http,
                                      !.body = restartOk(req[c].listed).body,
                                      !.restart.cleanup = "not_started"]]
          /\ req' = [req EXCEPT ![c] = IdleReq]
          /\ UNCHANGED procs
       \/ /\ Goto(c, "cleanup_wait")
          /\ \E reached \in BOOLEAN : procs' = pkillPass(procs, reached)
          /\ UNCHANGED reply
    /\ UNCHANGED <<calls, notSup>>

\* part_002 lines 112-128: the bounded wait, the kill of a cleanup process
\* still running (its failure ignored), and the answer counting the listed
RestartCleanupWait(c) ==
    /\ req[c].pc = "cleanup_wait"
    /\ \E outcome \in WAIT_OUTCOMES :
         reply' = [reply EXCEPT ![c] =
                      [@ EXCEPT !.op = req[c].op, !.http = restartOk(req[c].listed).http,
                                !.body = restartOk(req[c].listed).body,
                                !.restart.cleanup = outcome]]
    /\ req' = [req EXCEPT ![c] = IdleReq]
    /\ UNCHANGED <<procs, calls, notSup>>

\* start-openclaw.sh lines 13-16: the guard of a started boot script
ScriptGuard(p) ==
    /\ procs[p] = "script"
    /\ procs' = [procs EXCEPT ![p] = IF pgrepGateway(procs) THEN "done" ELSE "booting"]
    /\ UNCHANGED <<req, reply, calls, notSup>>

\* start-openclaw.sh lines 910-921: lock files removed, exec openclaw gateway
ScriptExec(p) ==
    /\ procs[p] = "booting"
    /\ procs' = [procs EXCEPT ![p] = "gateway"]
    /\ UNCHANGED <<req, reply, calls, notSup>>

\* start-openclaw.sh line 11: a failing command ends the script
ScriptAbort(p) ==
    /\ procs[p] = "booting"
    /\ procs' = [procs EXCEPT ![p] = "done"]
    /\ UNCHANGED <<req, reply, calls, notSup>>

\* a gateway stops answering; a gateway ends
GatewayStalls(p) ==
    /\ procs[p] = "gateway"
    /\ procs' = [procs EXCEPT ![p] = "hung"]
    /\ UNCHANGED <<req, reply, calls, notSup>>

GatewayEnds(p) ==
    /\ procs[p] \in GATEWAYS
    /\ procs' = [procs EXCEPT ![p] = "done"]
    /\ UNCHANGED <<req, reply, calls, notSup>>

SupInit ==
    /\ PatchIdleBoot
    /\ PatchIdle
    /\ MigIdle
    /\ SyncIdle
    /\ SumIdle
    /\ PushIdle
    /\ BgIdle
    /\ procs = [p \in PIDS |-> "free"]
    /\ req = [c \in CALLERS |-> IdleReq]
    /\ reply = [c \in CALLERS |-> NoReply]
    /\ calls = 0

NextSupervisor ==
    \/ \E c \in CALLERS : Request(c)
    \/ \E c \in CALLERS : StatusLookup(c)
    \/ \E c \in CALLERS : StatusProbe(c)
    \/ \E c \in CALLERS : EnsureCheck(c)
    \/ \E c \in CALLERS : EnsureSpawn(c)
    \/ \E c \in CALLERS : EnsureWait(c)
    \/ \E c \in CALLERS : StartReply(c)
    \/ \E c \in CALLERS : RestartList(c)
    \/ \E c \in CALLERS : RestartKill(c)
    \/ \E c \in CALLERS : RestartCleanup(c)
    \/ \E c \in CALLERS : RestartCleanupWait(c)
    \/ \E p \in PIDS : ScriptGuard(p)
    \/ \E p \in PIDS : ScriptExec(p)
    \/ \E p \in PIDS : ScriptAbort(p)
    \/ \E p \in PIDS : GatewayStalls(p)
    \/ \E p \in PIDS : GatewayEnds(p)

SpecSupervisor == SupInit /\ [][NextSupervisor]_vars

SupTypeOK ==
    /\ procs \in [PIDS -> {"free", "done"} \cup LISTED \cup GATEWAYS]
    /\ \A c \in CALLERS : reply[c].http \in {0, 200, 500}

-----------------------------------------------------------------------------
(* Claims about the process supervisor *)

\* a process is started in this step
Started(p) == procs[p] = "free" /\ procs'[p] # "free"

\* C12: a start call that finds a healthy instance answering the probe
\* starts no process, and a boot script that runs while a gateway process
\* exists ends at its guard: it never goes on to exec a gateway
C12_NoSecondGateway ==
    [][/\ \A p \in PIDS :
            Started(p) =>
              \E c \in CALLERS :
                /\ req[c].pc = "ensure_spawn"
                /\ reply[c].seen = "unhealthy"
                /\ reply'[c].spawned = p
       /\ \A c \in CALLERS :
            (req[c].pc = "ensure_check" /\ reply'[c].seen = "healthy") =>
              (req'[c].pc = "start_lookup" /\ procs' = procs)
       /\ \A p \in PIDS :
            (procs[p] = "script" /\ Live(procs, GATEWAYS) # {}) =>
              procs'[p] \in {"script", "done"}
       /\ \A p \in PIDS :
            (procs[p] # "gateway" /\ procs'[p] = "gateway") => procs[p] = "booting"]_vars

\* a start call found the instance of an earlier call healthy and answered
\* 'running' without starting a process: one gateway process is live
C12_Witness ==
    \E c \in CALLERS :
      /\ reply[c].op = "start"
      /\ reply[c].http = 200
      /\ reply[c].seen = "healthy"
      /\ reply[c].spawned = 0
      /\ calls >= 2
      /\ Cardinality(Live(procs, GATEWAYS)) = 1
      /\ Cardinality(Live(procs, {"free"})) = MaxProcs - 1

\* C13: under every interleaving of start calls and boot script runs at
\* most one gateway process is live
C13_AtMostOneGateway == Cardinality(Live(procs, GATEWAYS)) <= 1

\* two boot scripts passed their guards before either exec'ed its gateway
C13_Witness ==
    /\ Cardinality(Live(procs, {"gateway"})) = 2
    /\ \A c \in CALLERS : reply[c].op = "start" /\ reply[c].spawned # 0

-----------------------------------------------------------------------------
(* Claims about the public routes *)

StatusAnswers == {c \in CALLERS : reply[c].op = "status" /\ reply[c].http # 0}

NothingRaised(r) == ~r.lookup.raised /\ ~r.probe.raised

\* C19: the status query answers 'running' exactly when the probe
\* succeeded, with the id of the process found or 'untracked';
\* 'not_running' exactly when the probe failed and no process was found;
\* 'not_responding' with the process id exactly when the probe failed and
\* a process was found; 'error' exactly when the lookup or the probe raised
C19_StatusExact ==
    \A c \in StatusAnswers :
      LET r == reply[c]
      IN  /\ r.body.status \in {"running", "not_running", "not_responding", "error"}
          /\ r.body.status = "running" <=> (NothingRaised(r) /\ r.probe.value = 1)
          /\ r.body.status = "running" =>
               r.body.processId = IF r.lookup.value # 0 THEN ProcId(r.lookup.value)
                                  ELSE Untracked
          /\ r.body.status = "not_running" <=>
               (NothingRaised(r) /\ r.probe.value = 0 /\ r.lookup.value = 0)
          /\ r.body.status = "not_running" => r.body.processId = NoId
          /\ r.body.status = "not_responding" <=>
               (NothingRaised(r) /\ r.probe.value = 0 /\ r.lookup.value # 0)
          /\ r.body.status = "not_responding" => r.body.processId = ProcId(r.lookup.value)
          /\ r.body.status = "error" <=> ~NothingRaised(r)
          /\ r.body.ok <=> r.body.status = "running"

\* a gateway that outlived the kill of its process answers the probe: the
\* status query says 'running' and 'untracked'
C19_Witness ==
    \E c \in StatusAnswers :
      /\ reply[c].body.status = "running"
      /\ reply[c].body.processId = Untracked
      /\ reply[c].lookup = Gave(0)
      /\ Live(procs, {"orphan"}) # {}

\* C20: every answer of the status, start and force-restart routes that
\* reports an internal error has a status outside 2xx
C20_ErrorsNot2xx ==
    \A c \in CALLERS :
      (reply[c].http # 0 /\ (reply[c].body.error \/ ~NothingRaised(reply[c]))) =>
        /\ reply[c].http \notin 200..299
        /\ reply[c].body.error
        /\ ~reply[c].body.ok

\* the process lookup of a status query raised and the answer is a 200
C20_Witness ==
    \E c \in StatusAnswers :
      /\ reply[c].lookup.raised
      /\ reply[c].body.status = "error"
      /\ reply[c].body.error
      /\ reply[c].http = 200

-----------------------------------------------------------------------------
(* The background sync loop, lines 871-902 *)

STABILIZE_DELAY == 60
SYNC_INTERVAL == 30

\* the local paths the loop tests
OPENCLAW_JSON == "/root/.openclaw/openclaw.json"
CLAWDBOT_JSON == "/root/.clawdbot/clawdbot.json"
CLAWD_DIR == "/root/clawd"
CLAWD_SKILLS_DIR == "/root/clawd/skills"

LoopFileSystems ==
    {fs \in SUBSET {OPENCLAW_JSON, CLAWDBOT_JSON, CLAWD_DIR, CLAWD_SKILLS_DIR} :
        CLAWD_SKILLS_DIR \in fs => CLAWD_DIR \in fs}

\* the order of the steps of one iteration
NEXT_STEP ==
    [config |-> "workspace", workspace |-> "skills", skills |-> "marker",
     marker |-> "sleep"]

AfterStepUnguarded(step, ok) == IF ok THEN NEXT_STEP[step] ELSE "exited"

\* lines 887, 891, 894, 896: '|| true' after every step
AfterStep(step, ok) == NEXT_STEP[step]

Attempt(step, ok) == [step |-> step, ok |-> ok, secs |-> 0]
Slept(secs) == [step |-> "sleep", ok |-> TRUE, secs |-> secs]

notSync == <<bootVars, patchVars, migVars, supVars, sumVars, pushVars, bgVars>>

\* line 871: the loop is started only when rclone is configured
LoopStart ==
    /\ loopPc = "start"
    /\ \E available \in BOOLEAN : loopPc' = IF available THEN "delay" ELSE "off"
    /\ UNCHANGED <<loopFs, SYNC_CONFIG, loopLog, loopPrev, loopIter, notSync>>

\* line 873
Stabilize ==
    /\ loopPc = "delay"
    /\ loopPc' = "top"
    /\ loopLog' = <<Slept(STABILIZE_DELAY)>>
    /\ UNCHANGED <<loopFs, SYNC_CONFIG, loopPrev, loopIter, notSync>>

\* lines 877-883
ChooseConfigDir ==
    /\ loopPc = "top"
    /\ loopIter < MaxIterations
    /\ loopIter' = loopIter + 1
    /\ loopPrev' = loopLog
    /\ loopLog' = <<>>
    /\ IF OPENCLAW_JSON \in loopFs
       THEN SYNC_CONFIG' = "/root/.openclaw" /\ loopPc' = "config"
       ELSE IF CLAWDBOT_JSON \in loopFs
       THEN SYNC_CONFIG' = "/root/.clawdbot" /\ loopPc' = "config"
       ELSE loopPc' = "sleep" /\ UNCHANGED SYNC_CONFIG
    /\ UNCHANGED <<loopFs, notSync>>

\* lines 885-887
SyncConfig ==
    /\ loopPc = "config"
    /\ \E ok \in BOOLEAN :
         /\ loopLog' = Append(loopLog, Attempt("config", ok))
         /\ loopPc' = AfterStep("config", ok)
    /\ UNCHANGED <<loopFs, SYNC_CONFIG, loopPrev, loopIter, notSync>>

\* lines 889-891
SyncWorkspace ==
    /\ loopPc = "workspace"
    /\ IF CLAWD_DIR \in loopFs
       THEN \E ok \in BOOLEAN :
              /\ loopLog' = Append(loopLog, Attempt("workspace", ok))
              /\ loopPc' = AfterStep("workspace", ok)
       ELSE /\ loopPc' = AfterStep("workspace", FALSE)
            /\ UNCHANGED loopLog
    /\ UNCHANGED <<loopFs, SYNC_CONFIG, loopPrev, loopIter, notSync>>

\* lines 893-894
SyncSkills ==
    /\ loopPc = "skills"
    /\ IF CLAWD_SKILLS_DIR \in loopFs
       THEN \E ok \in BOOLEAN :
              /\ loopLog' = Append(loopLog, Attempt("skills", ok))
              /\ loopPc' = AfterStep("skills", ok)
       ELSE /\ loopPc' = AfterStep("skills", FALSE)
            /\ UNCHANGED loopLog
    /\ UNCHANGED <<loopFs, SYNC_CONFIG, loopPrev, loopIter, notSync>>

\* line 896
WriteMarker ==
    /\ loopPc = "marker"
    /\ \E ok \in BOOLEAN :
         /\ loopLog' = Append(loopLog, Attempt("marker", ok))
         /\ loopPc' = AfterStep("marker", ok)
    /\ UNCHANGED <<loopFs, SYNC_CONFIG, loopPrev, loopIter, notSync>>

\* lines 882 and 898
LoopSleep ==
    /\ loopPc = "sleep"
    /\ loopLog' = Append(loopLog, Slept(SYNC_INTERVAL))
    /\ loopPc' = "top"
    /\ UNCHANGED <<loopFs, SYNC_CONFIG, loopPrev, loopIter, notSync>>

\* the gateway and its agents create and remove files while the loop runs
FilesChange ==
    /\ loopPc \in {"delay", "top", "sleep"} \cup DOMAIN NEXT_STEP
    /\ loopFs' \in LoopFileSystems \ {loopFs}
    /\ UNCHANGED <<loopPc, SYNC_CONFIG, loopLog, loopPrev, loopIter, notSync>>

SyncInit ==
    /\ PatchIdleBoot
    /\ PatchIdle
    /\ MigIdle
    /\ SupIdle
    /\ SumIdle
    /\ PushIdle
    /\ BgIdle
    /\ loopPc = "start"
    /\ loopFs \in LoopFileSystems
    /\ SYNC_CONFIG = ""
    /\ loopLog = <<>>
    /\ loopPrev = <<>>
    /\ loopIter = 0

NextSync ==
    \/ LoopStart
    \/ Stabilize
    \/ ChooseConfigDir
    \/ SyncConfig
    \/ SyncWorkspace
    \/ SyncSkills
    \/ WriteMarker
    \/ LoopSleep
    \/ FilesChange

SpecSync == SyncInit /\ [][NextSync]_vars

-----------------------------------------------------------------------------
(* Claims about the sync loop *)

Steps(log) == [i \in 1..Len(log) |-> log[i].step]

Attempted(step) ==
    /\ Len(loopLog') = Len(loopLog) + 1
    /\ loopLog'[Len(loopLog')].step = step

HasConfigFile == OPENCLAW_JSON \in loopFs \/ CLAWDBOT_JSON \in loopFs

\* C15 as stated: every iteration that found a config file attempted the
\* config sync, the workspace sync, the skills sync and the marker write
C15_AllFourAttempted ==
    (loopPc = "sleep" /\ loopLog # <<>>) =>
      Steps(loopLog) = <<"config", "workspace", "skills", "marker">>

\* C15: the loop never ends because a step failed; an iteration that finds
\* a config file attempts the config sync, then the workspace sync when
\* /root/clawd is a directory, then the skills sync when /root/clawd/skills
\* is a directory, then the marker write, whatever the earlier steps gave;
\* every iteration ends with the sleep of the fixed interval and is followed
\* by the next one
C15_LoopKeepsGoing ==
    [][loopPc' # loopPc =>
         /\ loopPc' # "exited"
         /\ loopPc \in {"top", "config", "workspace", "skills", "marker", "sleep"}
              => loopPc' \notin {"start", "off", "delay"}
         /\ loopPc = "top" =>
              /\ loopPc' = IF HasConfigFile THEN "config" ELSE "sleep"
              /\ loopLog' = <<>>
         /\ loopPc = "config" => (loopPc' = "workspace" /\ Attempted("config"))
         /\ loopPc = "workspace" =>
              /\ loopPc' = "skills"
              /\ IF CLAWD_DIR \in loopFs
                 THEN Attempted("workspace") ELSE loopLog' = loopLog
         /\ loopPc = "skills" =>
              /\ loopPc' = "marker"
              /\ IF CLAWD_SKILLS_DIR \in loopFs
                 THEN Attempted("skills") ELSE loopLog' = loopLog
         /\ loopPc = "marker" => (loopPc' = "sleep" /\ Attempted("marker"))
         /\ loopPc = "sleep" =>
              /\ loopPc' = "top"
              /\ loopLog' = Append(loopLog, Slept(SYNC_INTERVAL))]_vars

\* every step of an iteration failed, the loop slept, and the next
\* iteration has synced the config again
C15_Witness ==
    /\ loopIter = 2
    /\ loopPc = "workspace"
    /\ Len(loopPrev) = 5
    /\ \A i \in 1..4 : ~loopPrev[i].ok
    /\ Steps(loopPrev) = <<"config", "workspace", "skills", "marker", "sleep">>
    /\ loopPrev[5].secs = SYNC_INTERVAL
    /\ Steps(loopLog) = <<"config">>

-----------------------------------------------------------------------------
(* summarizeAuthState, auth-state.ts *)

\* a JSON value as a tree: a string, an object or an array with its
\* entries in order (an array entry has the empty key), or null
StrNode(s) == [t |-> "str", s |-> s, kids |-> <<>>]
ObjNode(kids) == [t |-> "obj", s |-> <<>>, kids |-> kids]
ArrNode(items) ==
    [t |-> "arr", s |-> <<>>, kids |-> [i \in DOMAIN items |-> [k |-> <<>>, v |-> items[i]]]]
NullNode == [t |-> "null", s |-> <<>>, kids |-> <<>>]
KV(k, v) == [k |-> <<k>>, v |-> v]

\* string | null
Null == [null |-> TRUE, s |-> <<>>]
Some(s) == [null |-> FALSE, s |-> s]

\* a text: null, blank, the serialisation of a JSON value, or a text that
\* JSON.parse rejects, of which the word tokens are kept
NullText == [kind |-> "null", node |-> NullNode, words |-> <<>>]
BlankText == [kind |-> "blank", node |-> NullNode, words |-> <<>>]
JsonText(node) == [kind |-> "json", node |-> node, words |-> <<>>]
CutText(words) == [kind |-> "cut", node |-> NullNode, words |-> words]

Range(s) == {s[i] : i \in DOMAIN s}

\* the tokens of every key and string of a JSON value
RECURSIVE WordsOf(_)
WordsOf(node) ==
    Range(node.s) \cup
    UNION {Range(node.kids[i].k) \cup WordsOf(node.kids[i].v) : i \in DOMAIN node.kids}

RawWords(text) ==
    IF text.kind = "json" THEN WordsOf(text.node)
    ELSE IF text.kind = "cut" THEN Range(text.words) ELSE {}

\* tokens that are not made of [a-z0-9._-] alone
NOT_WORDS == {"/", ":", " ", "+", "=", "https://", "http://"}

\* line 18: MODEL_PROVIDER_RE
MatchesModelProvider(s) ==
    /\ Len(s) >= 3
    /\ s[1] \notin NOT_WORDS
    /\ s[2] = "/"
    /\ \A i \in 3..Len(s) : s[i] # " "

\* line 19: SIMPLE_PROVIDER_RE
MatchesSimpleProvider(s) == Len(s) = 1 /\ s[1] \notin NOT_WORDS

\* lines 21-28
parseJson(text) == IF text.kind = "json" THEN text.node ELSE NullNode

Child(node, key) ==
    IF node.t = "obj" /\ \E i \in DOMAIN node.kids : node.kids[i].k = <<key>>
    THEN node.kids[CHOOSE i \in DOMAIN node.kids : node.kids[i].k = <<key>>].v
    ELSE NullNode

\* lines 30-41
getPrimaryModelFromConfig(config) ==
    LET model == Child(Child(Child(config, "agents"), "defaults"), "model")
    IN  IF model.t = "str" THEN Some(model.s)
        ELSE IF Child(model, "primary").t = "str" THEN Some(Child(model, "primary").s)
        ELSE Null

\* lines 43-50
providerFromModelRef(modelRef) ==
    IF modelRef.null \/ modelRef.s = <<>> THEN Null
    ELSE LET trimmed == trim(modelRef.s)
         IN  IF trimmed = <<>> \/ trimmed[1] \in {"http://", "https://"} THEN Null
             ELSE IF MatchesModelProvider(trimmed) THEN Some(<<trimmed[1]>>)
             ELSE Null

\* Set.prototype.add, the set kept in insertion order
SetAdd(out, p) == IF p \in Range(out) THEN out ELSE Append(out, p)

\* lines 52-57
addProvider(out, maybeProvider) ==
    IF maybeProvider.null \/ maybeProvider.s = <<>> THEN out
    ELSE LET normalized == toLowerCase(trim(maybeProvider.s))
         IN  IF normalized = <<>> \/ ~MatchesSimpleProvider(normalized) THEN out
             ELSE SetAdd(out, normalized)

PROVIDER_KEYS == {<<"provider">>, <<"providername">>, <<"providerid">>}

\* lines 59-89
RECURSIVE collectProviders(_, _, _)
RECURSIVE collectEntries(_, _, _, _)
collectProviders(value, out, parentKey) ==
    IF value.t = "str"
    THEN addProvider(IF parentKey \in PROVIDER_KEYS THEN addProvider(out, Some(value.s))
                     ELSE out,
                     providerFromModelRef(Some(value.s)))
    ELSE IF value.t \in {"arr", "obj"} THEN collectEntries(value, 1, out, parentKey)
    ELSE out

collectEntries(value, i, out, parentKey) ==
    IF i > Len(value.kids) THEN out
    ELSE LET entry == value.kids[i]
         IN  collectEntries(value, i + 1,
                 IF value.t = "arr" THEN collectProviders(entry.v, out, parentKey)
                 ELSE collectProviders(entry.v,
                                       addProvider(out, providerFromModelRef(Some(entry.k))),
                                       toLowerCase(entry.k)),
                 parentKey)

hasProviderTokenParsedOnly(raw, provider) ==
    /\ raw.kind = "json"
    /\ ~provider.null
    /\ \E w \in RawWords(raw) : toLowerCase(<<w>>) = toLowerCase(provider.s)

\* lines 91-96: the provider between two characters outside [a-z0-9._-],
\* whatever the case of its letters
hasProviderToken(raw, provider) ==
    /\ raw.kind \notin {"null", "blank"}
    /\ ~provider.null
    /\ \E w \in RawWords(raw) : toLowerCase(<<w>>) = toLowerCase(provider.s)

\* lines 98-127
summarizeAuthState(input) ==
    LET configObj == parseJson(input.configText)
        authProfilesObj == parseJson(input.authProfilesText)
        primaryModel == getPrimaryModelFromConfig(configObj)
        primaryProvider == providerFromModelRef(primaryModel)
        authProfilesPresent == input.authProfilesText.kind \notin {"null", "blank"}
        collected == collectProviders(authProfilesObj, <<>>, <<>>)
        providersWithProfiles ==
            IF ~primaryProvider.null /\ hasProviderToken(input.authProfilesText, primaryProvider)
            THEN SetAdd(collected, primaryProvider.s) ELSE collected
        hasPrimaryProviderProfile ==
            IF ~primaryProvider.null THEN primaryProvider.s \in Range(providersWithProfiles)
            ELSE TRUE
    IN  [primary_model |-> primaryModel,
         primary_provider |-> primaryProvider,
         agent_id |-> IF input.agentId # "" THEN input.agentId ELSE "main",
         auth_profiles_present |-> authProfilesPresent,
         providers_with_profiles |-> providersWithProfiles,
         has_legacy_oauth_import_file |-> input.oauthFilePresent,
         mismatch_detected |-> ~primaryProvider.null /\ ~hasPrimaryProviderProfile]

\* the config texts: without a model, with a model string, with a model
\* object, and texts that are no JSON
ConfigWith(model) ==
    JsonText(ObjNode(<<KV("agents", ObjNode(<<KV("defaults",
                 ObjNode(<<KV("model", model)>>))>>))>>))

SummaryConfigs ==
    {NullText, CutText(<<"agents">>),
     ConfigWith(ObjNode(<<>>)),
     ConfigWith(ObjNode(<<KV("primary", StrNode(REF_CODEX))>>)),
     ConfigWith(ObjNode(<<KV("primary", StrNode(REF_ANTHROPIC_CAPS))>>)),
     ConfigWith(StrNode(REF_ANTHROPIC)),
     ConfigWith(StrNode(REF_URL)),
     ConfigWith(StrNode(REF_NOSLASH))}

Profile(provider, name) ==
    ObjNode(<<KV("provider", StrNode(<<provider>>)), KV("name", StrNode(<<name>>))>>)

ProfileList(items) == JsonText(ObjNode(<<KV("profiles", ArrNode(items))>>))

NO_SECRET == <<>>

\* the auth-profiles texts that hold no credential
PlainStores ==
    {NullText, BlankText,
     ProfileList(<<Profile("anthropic", "default")>>),
     ProfileList(<<Profile("openai-codex", "oauth")>>),
     ProfileList(<<Profile("anthropic", "openai-codex")>>),
     ProfileList(<<ObjNode(<<KV("providerId", StrNode(<<"OpenAI-Codex">>))>>)>>),
     JsonText(ObjNode(<<KV("entries",
         ArrNode(<<ObjNode(<<KV("model", StrNode(REF_CODEX))>>),
                   ObjNode(<<KV("model", StrNode(<<"anthropic", "/", "claude-opus-4-6">>))>>)>>))>>)),
     CutText(<<"profiles", "provider", "openai-codex">>),
     CutText(<<"profiles", "provider", "Anthropic">>),
     CutText(<<"profiles">>)}

\* the auth-profiles texts that hold the credential cred
KeyedStores(cred) ==
    <<ProfileList(<<ObjNode(<<KV("provider", StrNode(<<"openai-codex">>)),
                              KV("apiKey", StrNode(cred))>>)>>),
      JsonText(ObjNode(<<KV("profiles",
          ObjNode(<<[k |-> <<"anthropic", ":", "default">>,
                     v |-> ObjNode(<<KV("type", StrNode(<<"api_key">>)),
                                     KV("provider", StrNode(<<"anthropic">>)),
                                     KV("key", StrNode(cred))>>)]>>))>>))>>

\* credential values: two keys of the usual shape and a base64 value
SummarySecrets == {<<"sk-test-super-secret">>, <<"sk-other">>, <<"QUJD", "/", "REVG">>}

notSum == <<bootVars, patchVars, migVars, supVars, syncVars, pushVars, bgVars>>

SumInit ==
    /\ PatchIdleBoot
    /\ PatchIdle
    /\ MigIdle
    /\ SupIdle
    /\ SyncIdle
    /\ PushIdle
    /\ BgIdle
    /\ \E config \in SummaryConfigs, oauth \in BOOLEAN, agent \in {"", "work"} :
         \/ \E store \in PlainStores :
              sumIn = [configText |-> config, authProfilesText |-> store,
                       twinText |-> store, secret |-> NO_SECRET, twinSecret |-> NO_SECRET,
                       oauthFilePresent |-> oauth, agentId |-> agent]
         \/ \E a \in SummarySecrets, b \in SummarySecrets :
            \E i \in DOMAIN KeyedStores(a) :
              sumIn = [configText |-> config, authProfilesText |-> KeyedStores(a)[i],
                       twinText |-> KeyedStores(b)[i], secret |-> a, twinSecret |-> b,
                       oauthFilePresent |-> oauth, agentId |-> agent]
    /\ sumOut = <<>>
    /\ sumCount = 0

\* summarizeAuthState on the text and on its twin, which differs from it
\* in the credential value only
Summarize ==
    /\ sumCount = 0
    /\ sumIn # <<>>
    /\ sumOut' = [main |-> summarizeAuthState(sumIn),
                  twin |-> summarizeAuthState(
                               [sumIn EXCEPT !.authProfilesText = sumIn.twinText])]
    /\ sumCount' = sumCount + 1
    /\ UNCHANGED <<sumIn, notSum>>

NextSummary == Summarize

SpecSummary == SumInit /\ [][NextSummary]_vars

-----------------------------------------------------------------------------
(* Claims about the auth-state summary *)

Summarized == sumCount > 0

SUMMARY_FIELDS ==
    {"primary_model", "primary_provider", "agent_id", "auth_profiles_present",
     "providers_with_profiles", "has_legacy_oauth_import_file", "mismatch_detected"}

\* the providers the structured read of the auth store finds
StructuredProviders == collectProviders(parseJson(sumIn.authProfilesText), <<>>, <<>>)

\* C16: with a primary provider P, mismatch_detected is false when the
\* parsed store holds P and true when it holds other providers only;
\* providers_with_profiles is what the store holds; without a primary
\* provider mismatch_detected is false
C16_MismatchFollowsStore ==
    (Summarized /\ sumIn.authProfilesText.kind # "cut") =>
      LET P == sumOut.main.primary_provider
      IN  /\ P.null => ~sumOut.main.mismatch_detected
          /\ ~P.null =>
               (sumOut.main.mismatch_detected
                  <=> toLowerCase(P.s) \notin Range(StructuredProviders))
          /\ sumOut.main.providers_with_profiles = StructuredProviders

\* the store holds one profile, of provider anthropic, whose name is the
\* primary provider: no mismatch is reported and openai-codex is listed
C16_Witness ==
    /\ Summarized
    /\ sumIn.authProfilesText = ProfileList(<<Profile("anthropic", "openai-codex")>>)
    /\ sumOut.main.primary_provider = Some(<<"openai-codex">>)
    /\ ~sumOut.main.mismatch_detected
    /\ sumOut.main.providers_with_profiles = <<(<<"anthropic">>), (<<"openai-codex">>)>>

\* every string of the serialised summary
SummaryStrings(summary) ==
    {summary.primary_model.s, summary.primary_provider.s, <<summary.agent_id>>}
      \cup Range(summary.providers_with_profiles)

\* needle is a part of hay
Contains(hay, needle) ==
    \E i \in 0..(Len(hay) - Len(needle)) : SubSeq(hay, i + 1, i + Len(needle)) = needle

\* C17: the summary has the seven fields only, no string of it contains a
\* credential of the store, and two stores that differ in credential
\* values only have the same summary
C17_NoCredentialInfluence ==
    Summarized =>
      /\ DOMAIN sumOut.main = SUMMARY_FIELDS
      /\ sumIn.secret # NO_SECRET =>
           \A str \in SummaryStrings(sumOut.main) : ~Contains(str, sumIn.secret)
      /\ sumOut.main = sumOut.twin

\* one store holds a key without '/', its twin a base64 value with one:
\* the twin's summary lists the lowercased head of the value as a provider
C17_Witness ==
    /\ Summarized
    /\ sumIn.secret = <<"sk-test-super-secret">>
    /\ sumIn.twinSecret = <<"QUJD", "/", "REVG">>
    /\ sumOut.main # sumOut.twin
    /\ <<"qujd">> \in Range(sumOut.twin.providers_with_profiles)
    /\ <<"qujd">> \notin Range(sumOut.main.providers_with_profiles)

\* the primary provider is a word of the auth-profiles text
TokenInText ==
    /\ ~sumOut.main.primary_provider.null
    /\ \E w \in RawWords(sumIn.authProfilesText) :
         toLowerCase(<<w>>) = toLowerCase(sumOut.main.primary_provider.s)

\* C18: of an auth-profiles text that is no JSON and holds the primary
\* provider as a delimited token, the summary (there is one: nothing is
\* raised) says auth_profiles_present, lists the provider and reports no
\* mismatch
C18_BrokenTextResilience ==
    (Summarized /\ sumIn.authProfilesText.kind = "cut") =>
      /\ DOMAIN sumOut.main = SUMMARY_FIELDS
      /\ sumOut.main.auth_profiles_present
      /\ TokenInText =>
           /\ sumOut.main.primary_provider.s \in Range(sumOut.main.providers_with_profiles)
           /\ ~sumOut.main.mismatch_detected

\* the cut-off text of the test: '{"profiles":[{"provider":"openai-codex"'
C18_Witness ==
    /\ Summarized
    /\ sumIn.authProfilesText = CutText(<<"profiles", "provider", "openai-codex">>)
    /\ sumOut.main.primary_provider = Some(<<"openai-codex">>)
    /\ sumOut.main.auth_profiles_present
    /\ sumOut.main.providers_with_profiles = <<(<<"openai-codex">>)>>
    /\ ~sumOut.main.mismatch_detected

\* ---------------------------------------------------------------------
\* C21: a force-restart that enumerated the tracked processes answers 200
\* with ok and a count equal to the number enumerated, whichever kill calls
\* raised and however the cleanup pass ended (not started, wait failed,
\* still running at the timeout, exited); and every step of the handler
\* moves it forward, so it reaches its answer in at most four steps.
RESTART_RANK == [list |-> 1, kill |-> 2, cleanup |-> 3, cleanup_wait |-> 4]

Enumerated(c) == reply[c].op = "restart" /\ reply[c].lookup # Raised

RestartAnswered ==
    \A c \in CALLERS :
        Enumerated(c) =>
            /\ reply[c].http = 200
            /\ reply[c].body.ok = TRUE
            /\ reply[c].body.killed = Cardinality(reply[c].restart.listed)

RestartAdvances ==
    \A c \in CALLERS :
        (req[c].op = "restart" /\ req'[c] # req[c]) =>
            \/ req'[c] = IdleReq
            \/ RESTART_RANK[req'[c].pc] > RESTART_RANK[req[c].pc]

C21_RestartAlwaysCounts == []RestartAnswered /\ [][RestartAdvances]_vars

C21_Witness ==
    \E c \in CALLERS :
        /\ Enumerated(c)
        /\ Cardinality(reply[c].restart.listed) = 2
        /\ reply[c].restart.failed # {}
        /\ reply[c].restart.cleanup = "timed_out"
        /\ reply[c].body.killed = 2

-----------------------------------------------------------------------------
(* syncToR2, src/gateway/sync.ts *)

R2_KEYS == {"R2_ACCESS_KEY_ID", "R2_SECRET_ACCESS_KEY", "CF_ACCOUNT_ID"}

\* sync.ts line 43
r2Configured(e) == R2_KEYS \subseteq e

\* the errors of SyncResult, sync.ts lines 44, 58, 69, 82
ERR_NOT_CONFIGURED == "R2 storage is not configured"
ERR_RCLONE_CONFIG == "Failed to create rclone config"
ERR_NO_CONFIG == "Sync aborted: no config file found"
ERR_CONFIG_SYNC == "Config sync failed"

\* what a call of syncToR2 gives its caller: nothing yet, a SyncResult, or
\* a rejected promise
Pending == [kind |-> "pending", success |-> FALSE, error |-> "", details |-> FALSE,
            lastSync |-> FALSE]
Failure(error, details) ==
    [kind |-> "value", success |-> FALSE, error |-> error, details |-> details,
     lastSync |-> FALSE]
Success == [kind |-> "value", success |-> TRUE, error |-> "", details |-> FALSE,
            lastSync |-> TRUE]
Thrown == [kind |-> "thrown", success |-> FALSE, error |-> "", details |-> FALSE,
           lastSync |-> FALSE]

\* sandbox.exec resolves with success, resolves without success, or rejects
EXEC_OUTCOMES == {"ok", "failed", "raised"}

\* one executed command: its result, what it printed or ran, and for the
\* detection the config files that were there when it ran
Exec(cmd, outcome, out) == [cmd |-> cmd, outcome |-> outcome, out |-> out, seen |-> {}]

CONFIG_FILES == {OPENCLAW_JSON, CLAWDBOT_JSON}

\* the command of line 63 with the last alternative echoing the legacy name
checkStdoutLegacyDefault(fs) ==
    IF OPENCLAW_JSON \in fs THEN "openclaw" ELSE "clawdbot"

\* sync.ts line 63: test -f ... && echo openclaw || (test -f ... && echo
\* clawdbot || echo none)
checkStdout(fs) ==
    IF OPENCLAW_JSON \in fs THEN "openclaw"
    ELSE IF CLAWDBOT_JSON \in fs THEN "clawdbot"
    ELSE "none"

\* sync.ts line 73
configDirOf(configType) ==
    IF configType = "openclaw" THEN "/root/.openclaw" ELSE "/root/.clawdbot"

\* the order of the commands, sync.ts lines 56, 62, 77, 86, 92, 98
AFTER_EXEC ==
    [rclone_config |-> "check", check |-> "config_sync", config_sync |-> "workspace_sync",
     workspace_sync |-> "skills_sync", skills_sync |-> "timestamp",
     timestamp |-> "returned"]

\* the commands whose result is tested, sync.ts lines 57 and 81
TESTED == {"rclone_config", "config_sync"}

\* no result is tested
afterExecUntested(cmd, outcome) ==
    IF outcome = "raised" THEN "thrown" ELSE AFTER_EXEC[cmd]

\* where syncToR2 goes after a command: a rejected exec is not caught, a
\* failed tested command returns, everything else goes on
afterExec(cmd, outcome) ==
    IF outcome = "raised" THEN "thrown"
    ELSE IF outcome = "failed" /\ cmd \in TESTED THEN "returned"
    ELSE AFTER_EXEC[cmd]

notPush == <<bootVars, patchVars, migVars, supVars, syncVars, sumVars, bgVars>>

\* one await sandbox.exec(...) and what follows it up to the next await
Step(cmd, outcome, out, result) ==
    /\ execLog' = Append(execLog, [Exec(cmd, outcome, out) EXCEPT
                                      !.seen = IF cmd = "check" /\ outcome = "ok"
                                               THEN syncFs \cap CONFIG_FILES ELSE {}])
    /\ syncPc' = afterExec(cmd, outcome)
    /\ syncResult' = IF syncPc' = "thrown" THEN Thrown
                     ELSE IF syncPc' = "returned" THEN result
                     ELSE syncResult

\* sync.ts lines 42-53
CallSyncToR2 ==
    /\ syncPc \in {"idle", "returned", "thrown"}
    /\ syncCalls < MaxSyncCalls
    /\ syncCalls' = syncCalls + 1
    /\ execLog' = <<>>
    /\ \E e \in SUBSET R2_KEYS :
         /\ syncEnv' = e
         /\ IF r2Configured(e)
            THEN syncPc' = "rclone_config" /\ syncResult' = Pending
            ELSE syncPc' = "returned" /\ syncResult' = Failure(ERR_NOT_CONFIGURED, FALSE)
    /\ UNCHANGED <<syncFs, bucket, notPush>>

\* sync.ts lines 56-59
ExecRcloneConfig ==
    /\ syncPc = "rclone_config"
    /\ \E outcome \in EXEC_OUTCOMES :
         Step("rclone_config", outcome, "", Failure(ERR_RCLONE_CONFIG, TRUE))
    /\ UNCHANGED <<syncEnv, syncFs, bucket, syncCalls, notPush>>

\* sync.ts lines 62-73
ExecCheck ==
    /\ syncPc = "check"
    /\ \/ LET configType == checkStdout(syncFs) IN
            IF configType = "none"
            THEN /\ execLog' = Append(execLog, [Exec("check", "ok", configType) EXCEPT
                                                   !.seen = syncFs \cap CONFIG_FILES])
                 /\ syncPc' = "returned"
                 /\ syncResult' = Failure(ERR_NO_CONFIG, TRUE)
            ELSE Step("check", "ok", configType, syncResult)
       \/ Step("check", "raised", "", syncResult)
    /\ UNCHANGED <<syncEnv, syncFs, bucket, syncCalls, notPush>>

\* the configDir of the call, line 73
configDir == configDirOf(execLog[2].out)

\* sync.ts lines 76-83
ExecConfigSync ==
    /\ syncPc = "config_sync"
    /\ \E outcome \in EXEC_OUTCOMES :
         /\ Step("config_sync", outcome, configDir, Failure(ERR_CONFIG_SYNC, TRUE))
         /\ bucket' = IF outcome = "ok" THEN [bucket EXCEPT !.openclaw = configDir]
                      ELSE bucket
    /\ UNCHANGED <<syncEnv, syncFs, syncCalls, notPush>>

\* sync.ts lines 86-89: [ -d /root/clawd ] && rclone sync ... || true
ExecWorkspaceSync ==
    /\ syncPc = "workspace_sync"
    /\ LET ran == IF CLAWD_DIR \in syncFs THEN "rclone" ELSE "" IN
       \E outcome \in EXEC_OUTCOMES :
         /\ Step("workspace_sync", outcome, ran, syncResult)
         /\ bucket' = IF outcome = "ok" /\ ran = "rclone"
                      THEN [bucket EXCEPT !.workspace = TRUE] ELSE bucket
    /\ UNCHANGED <<syncEnv, syncFs, syncCalls, notPush>>

\* sync.ts lines 92-95: [ -d /root/clawd/skills ] && rclone sync ... || true
ExecSkillsSync ==
    /\ syncPc = "skills_sync"
    /\ LET ran == IF CLAWD_SKILLS_DIR \in syncFs THEN "rclone" ELSE "" IN
       \E outcome \in EXEC_OUTCOMES :
         /\ Step("skills_sync", outcome, ran, syncResult)
         /\ bucket' = IF outcome = "ok" /\ ran = "rclone"
                      THEN [bucket EXCEPT !.skills = TRUE] ELSE bucket
    /\ UNCHANGED <<syncEnv, syncFs, syncCalls, notPush>>

\* sync.ts lines 98-100: date -Iseconds | rclone rcat .last-sync, then the
\* success result whatever the command gave
ExecTimestamp ==
    /\ syncPc = "timestamp"
    /\ \E outcome \in EXEC_OUTCOMES :
         /\ Step("timestamp", outcome, "", Success)
         /\ bucket' = IF outcome = "ok" THEN [bucket EXCEPT !.marker = "fresh"]
                      ELSE bucket
    /\ UNCHANGED <<syncEnv, syncFs, syncCalls, notPush>>

\* the gateway and its agents create and remove files in the container
ContainerFilesChange ==
    /\ syncPc \in DOMAIN AFTER_EXEC
    /\ syncFs' \in LoopFileSystems \ {syncFs}
    /\ UNCHANGED <<syncPc, syncEnv, execLog, syncResult, bucket, syncCalls, notPush>>

PushInit ==
    /\ PatchIdleBoot
    /\ PatchIdle
    /\ MigIdle
    /\ SupIdle
    /\ SyncIdle
    /\ SumIdle
    /\ BgIdle
    /\ syncPc = "idle"
    /\ syncEnv = {}
    /\ syncFs \in LoopFileSystems
    /\ execLog = <<>>
    /\ syncResult = Pending
    /\ bucket = [openclaw |-> "", workspace |-> FALSE, skills |-> FALSE, marker |-> "old"]
    /\ syncCalls = 0

NextPush ==
    \/ CallSyncToR2
    \/ ExecRcloneConfig
    \/ ExecCheck
    \/ ExecConfigSync
    \/ ExecWorkspaceSync
    \/ ExecSkillsSync
    \/ ExecTimestamp
    \/ ContainerFilesChange

SpecPush == PushInit /\ [][NextPush]_vars

PushTypeOK ==
    /\ syncPc \in {"idle", "returned", "thrown"} \cup DOMAIN AFTER_EXEC
    /\ syncResult.kind \in {"pending", "value", "thrown"}
    /\ syncCalls \in 0..MaxSyncCalls

-----------------------------------------------------------------------------
(* Claims about syncToR2 *)

SYNC_COMMANDS ==
    <<"rclone_config", "check", "config_sync", "workspace_sync", "skills_sync",
      "timestamp">>

Cmds(log) == [i \in 1..Len(log) |-> log[i].cmd]

\* C22: the commands of a call of syncToR2 are executed in the order rclone
\* config, config detection, config sync, workspace sync, skills sync,
\* marker write; a failed config sync ends the call with the value
\* {success: false, error: 'Config sync failed'} and nothing is executed
\* after it, so the workspace sync, the skills sync and the marker write
\* are executed only after a config sync that succeeded.
C22_OrderedAndGated ==
    /\ Len(execLog) <= Len(SYNC_COMMANDS)
    /\ Cmds(execLog) = SubSeq(SYNC_COMMANDS, 1, Len(execLog))
    /\ (Len(execLog) >= 3 /\ execLog[3].outcome = "failed") =>
          /\ Len(execLog) = 3
          /\ syncPc = "returned"
          /\ syncResult = Failure(ERR_CONFIG_SYNC, TRUE)
    /\ Len(execLog) >= 4 => execLog[3].outcome = "ok"
    /\ (syncResult.kind = "value" /\ syncResult.success) =>
          /\ Len(execLog) = 6
          /\ execLog[3].outcome = "ok"

\* a first call pushed everything and wrote the marker; in the second call
\* the config sync failed and the call ended there
C22_Witness ==
    /\ syncCalls = 2
    /\ bucket.marker = "fresh"
    /\ bucket.openclaw # ""
    /\ Cmds(execLog) = <<"rclone_config", "check", "config_sync">>
    /\ execLog[3].outcome = "failed"
    /\ syncResult = Failure(ERR_CONFIG_SYNC, TRUE)

\* the two pushers of local state, each in behaviours of its own: the sync
\* loop of the boot script and syncToR2 of the Worker
PushersInit == SyncInit \/ PushInit

NextPushers == NextSync \/ NextPush

SpecPushers == PushersInit /\ [][NextPushers]_vars

\* a detection of syncToR2 that ran with neither config file present ends
\* the call with 'Sync aborted: no config file found' after two commands
NoConfigNoPush ==
    (Len(execLog) >= 2 /\ execLog[2].outcome = "ok" /\ execLog[2].seen = {}) =>
        /\ Len(execLog) = 2
        /\ syncPc = "returned"
        /\ syncResult = Failure(ERR_NO_CONFIG, TRUE)

\* an iteration of the loop that finds neither config file goes to its
\* sleep with nothing attempted, and the sleep is followed by the next
\* detection
LoopSkips ==
    /\ (loopPc = "top" /\ loopPc' # loopPc /\ CONFIG_FILES \cap loopFs = {}) =>
          (loopPc' = "sleep" /\ loopLog' = <<>>)
    /\ (loopPc = "sleep" /\ loopPc' # loopPc) =>
          (loopPc' = "top" /\ loopLog' = Append(loopLog, Slept(SYNC_INTERVAL)))

\* C23: when neither the current-named nor the legacy-named config file is
\* there at the detection, nothing is pushed: syncToR2 returns {success:
\* false, error: 'Sync aborted: no config file found'} with no rclone sync
\* and no marker write executed, and the sync loop sleeps and goes to its
\* next iteration with no sync and no marker write attempted.
C23_NoConfigNoSync == []NoConfigNoPush /\ [][LoopSkips]_vars

\* a first call pushed a config tree, the config files went away, and the
\* second call ended at the detection with the bucket as it was
C23_Witness ==
    /\ syncCalls = 2
    /\ bucket.openclaw # ""
    /\ bucket.marker = "old"
    /\ CONFIG_FILES \cap syncFs = {}
    /\ Len(execLog) = 2
    /\ execLog[2].seen = {}
    /\ syncResult = Failure(ERR_NO_CONFIG, TRUE)

FAILURES == {ERR_NOT_CONFIGURED, ERR_RCLONE_CONFIG, ERR_NO_CONFIG, ERR_CONFIG_SYNC}

\* C24 as stated: every call of syncToR2 that has ended gave its caller a
\* value, a success or {success: false, error, details?}, whatever the
\* executed commands did, and a call without the three credentials
\* executed no command
C24_FailuresAreValues ==
    syncPc \in {"returned", "thrown"} =>
        /\ syncResult.kind = "value"
        /\ ~syncResult.success => syncResult.error \in FAILURES
        /\ ~r2Configured(syncEnv) =>
              (execLog = <<>> /\ syncResult = Failure(ERR_NOT_CONFIGURED, FALSE))

\* the exec of the workspace sync rejected after the config was pushed, and
\* the call ended with a rejected promise
C24_Witness ==
    /\ syncPc = "thrown"
    /\ syncResult.kind = "thrown"
    /\ Len(execLog) = 4
    /\ execLog[4].outcome = "raised"
    /\ bucket.openclaw # ""

-----------------------------------------------------------------------------
(* The boot script together with the sync loops it has left running *)

\* the marker a push writes: date -Iseconds at a moment after every marker
\* the container started with
PUSH_MARKER == Marker("2026-03-01T00:00:00+00:00")

\* where the boot script is when a loop pushes: restoring or patching, on
\* its way from the patch to the gateway, or not running
PhaseOf(at) ==
    IF at \in {"decide", "restore_config", "restore_workspace", "restore_skills",
               "onboard", "patch", "patch_write"}
    THEN "before_patch"
    ELSE IF at \in {"start", "gateway", "exited", "aborted"} THEN "not_booting"
    ELSE "after_patch"

\* lines 876-896: one iteration of a running loop that finds the config
\* file; every rclone command is followed by '|| true', so the iteration
\* may leave the bucket as it was
BackgroundPush ==
    /\ syncLoops > 0
    /\ configFile # NoFile
    /\ lastPush' = [boot |-> hist.boots, phase |-> PhaseOf(pc)]
    /\ \E ok \in BOOLEAN :
         remote' = IF ok
                   THEN [remote EXCEPT
                            !.layouts = @ \cup {"current"},
                            !.config = configFile,
                            !.authCurrent = authFile,
                            !.workspace = IF workspace.dir THEN workspace.files ELSE @,
                            !.skills = IF skills.dir THEN skills.entries ELSE @,
                            !.marker = PUSH_MARKER]
                   ELSE remote
    /\ UNCHANGED <<pc, env, RCLONE_AVAILABLE, DO_RESTORE, AUTH_RECONCILE_REQUIRED,
                   localMarker, configFile, authFile, oauthFile, authStateFile,
                   degradedMarker, traceStateFile, workspace, skills,
                   gatewayRunning, writeBuf, hist, patchVars, migVars,
                   supVars, syncVars, sumVars, pushVars, syncLoops>>

\* the boots of this specification are those whose checker ran
NextBackground == BootSteps \/ AuthCheckExits(FALSE) \/ BackgroundPush

SpecBackground == Init /\ [][NextBackground]_vars

BgTypeOK ==
    /\ syncLoops \in 0..MaxBoots
    /\ lastPush.boot \in 0..MaxBoots

\* the stages of a boot in the order of the script
STAGE ==
    [start |-> 0, decide |-> 1, restore_config |-> 1, restore_workspace |-> 1,
     restore_skills |-> 1, onboard |-> 2, patch |-> 3, patch_write |-> 3,
     auth_check |-> 4, auth_remote |-> 4, codex |-> 4, codex_open |-> 4,
     codex_write |-> 4, refresh |-> 4, marker |-> 4, verify |-> 5, sync_loop |-> 6,
     start_gateway |-> 7, gateway |-> 8, exited |-> 9, aborted |-> 9]

\* within a boot the script never goes back to an earlier stage
StageOrder == (pc' # pc /\ pc' # "start") => STAGE[pc'] >= STAGE[pc]

\* no push of a sync loop happened while a boot was between its restore
\* decision and the end of its patch
NoPushBeforePatch == lastPush.phase # "before_patch"

\* C25 as stated: the stages of a boot follow one another in the order
\* restore, patch, auth reconciliation, integrity check, gateway start, and
\* no push of a background sync loop reads the config tree before the patch
\* of the boot has completed
C25_StrictOrder == [][StageOrder]_vars /\ []NoPushBeforePatch

\* the loop forked by the first boot is still running in the second boot
\* and has pushed the config file the patcher had truncated and not yet
\* written
C25_Witness ==
    /\ hist.boots = 2
    /\ syncLoops = 1
    /\ pc = "patch_write"
    /\ lastPush = [boot |-> 2, phase |-> "before_patch"]
    /\ remote.config = Partial

-----------------------------------------------------------------------------
(* Claims about the restore step *)

\* the first of the three layouts, in the order of the probes of lines 96,
\* 101 and 107, that the bucket holds
ProbedFirst ==
    CASE "current" \in remote.layouts -> "current"
      [] "current" \notin remote.layouts /\ "nested" \in remote.layouts -> "nested"
      [] {"current", "nested"} \cap remote.layouts = {} /\ "flat" \in remote.layouts -> "flat"
      [] OTHER -> "none"

\* C26: a config restore that ran to its end copied exactly one layout, the
\* first the bucket holds in the order current, legacy nested, legacy flat,
\* and only when the latched decision is true; after a legacy layout the
\* config file is the restored legacy config when there was no config file,
\* and is the config file that was there otherwise; no other step of the
\* boot copies a layout.
C26_FirstLayoutOnly ==
    [][/\ (pc = "restore_config" /\ pc' = "restore_workspace") =>
            /\ hist'.restoredFrom = IF DO_RESTORE THEN ProbedFirst ELSE "none"
            /\ hist'.restoredFrom = "none" => configFile' = configFile
            /\ hist'.restoredFrom = "current" => configFile' = remote.config
            /\ hist'.restoredFrom \in {"nested", "flat"} =>
                  configFile' = IF configFile.st = "absent" THEN remote.config
                                ELSE configFile
       /\ (pc # "restore_config" /\ pc' # "start") =>
            hist'.restoredFrom = hist.restoredFrom]_vars

\* the bucket holds the two legacy layouts, the nested one was copied, and
\* the config file that was already there is still the config file
C26_Witness ==
    /\ pc = "restore_workspace"
    /\ DO_RESTORE
    /\ remote.layouts = {"flat", "nested"}
    /\ hist.restoredFrom = "nested"
    /\ configFile.st # "absent"
    /\ configFile # remote.config

\* what the restore step may change on disk
RestoreTargets == <<configFile, authFile, localMarker, workspace, skills>>

RESTORE_PCS == {"restore_config", "restore_workspace", "restore_skills"}

\* C27: the workspace tree is restored exactly when the latched decision is
\* true and the remote workspace tree is not empty, and the skills tree
\* exactly when the decision is true and the remote skills tree is not
\* empty, each whatever the other and the config restore found; with a false
\* decision no step of the restore changes a local file.
C27_TreesIndependent ==
    [][/\ (pc = "restore_workspace" /\ pc' = "restore_skills") =>
            /\ hist'.wsRestored = (DO_RESTORE /\ remote.workspace # {})
            /\ hist'.wsRestored => remote.workspace \subseteq workspace'.files
            /\ ~hist'.wsRestored => workspace' = workspace
       /\ (pc = "restore_skills" /\ pc' = "onboard") =>
            /\ hist'.skillsRestored = (DO_RESTORE /\ remote.skills # {})
            /\ hist'.skillsRestored => remote.skills \subseteq skills'.entries
            /\ ~hist'.skillsRestored => skills' = skills
       /\ (pc \in RESTORE_PCS /\ ~DO_RESTORE) =>
            /\ pc' \in RESTORE_PCS \cup {"onboard"}
            /\ RestoreTargets' = RestoreTargets]_vars

\* no config layout was in the bucket and the remote skills tree was
\* empty; the workspace was restored all the same
C27_Witness ==
    /\ pc = "onboard"
    /\ DO_RESTORE
    /\ hist.restoredFrom = "none"
    /\ hist.wsRestored
    /\ ~hist.skillsRestored
    /\ remote.skills = {}
    /\ MEMORY_FILES \subseteq workspace.files

-----------------------------------------------------------------------------
(* Claims about the recovery stages *)

\* C28 as stated: the remote auth-profile restore overwrites the local auth
\* store only in a boot where the first check reported a mismatch and the
\* latched restore decision is true; what it writes is the file of the
\* current layout path, or the file of the legacy path when the current one
\* is absent; with neither in the bucket the local store stays as it is
C28_RemoteRestoreGated ==
    [][(pc = "auth_remote" /\ pc' = "codex") =>
          /\ authFile' # authFile => (hist.firstMismatch /\ DO_RESTORE)
          /\ authFile' # authFile =>
                authFile' = IF remote.authCurrent.st # "absent" THEN remote.authCurrent
                            ELSE remote.authLegacy
          /\ (remote.authCurrent.st = "absent" /\ remote.authLegacy.st = "absent") =>
                authFile' = authFile]_vars

\* the latched decision was false (no remote marker), the first check
\* reported a mismatch, and the local auth store is now the remote one
C28_Witness ==
    /\ pc = "codex"
    /\ hist.boots = 1
    /\ ~DO_RESTORE
    /\ RCLONE_AVAILABLE
    /\ hist.firstMismatch
    /\ remote.authCurrent = stringify(STORE_CODEX_BY_ID)
    /\ authFile = remote.authCurrent

RECOVERY_STAGES == {"remote", "migration", "bootstrap", "refresh"}

\* s holds each of its stages once and in the order of the sequence order
InOrder(s, order) ==
    /\ \A i \in DOMAIN s : \E k \in DOMAIN order : s[i] = order[k]
    /\ \A i, j \in DOMAIN s :
          i < j => \E k, l \in DOMAIN order : k < l /\ s[i] = order[k] /\ s[j] = order[l]

Ran(stage) == \E i \in DOMAIN hist.stages : hist.stages[i] = stage

IsLegacyStore(f) == ValidJson(f) /\ f.doc.shape = "legacy"
IsVersionedStore(f) == ValidJson(f) /\ f.doc.shape = "versioned"

\* the reconciliation of the boot is over
RECONCILED_PCS == {"marker", "verify", "sync_loop", "start_gateway"}

\* C30 as stated: no step takes the auth-profile store on disk from the
\* versioned {version, profiles} shape to the legacy flat shape, in the
\* first boot or in a later one, and after the reconciliation of a boot the
\* store on disk is not in the legacy shape
C30_NeverDowngraded ==
    /\ [][IsVersionedStore(authFile) => ~IsLegacyStore(authFile')]_vars
    /\ [](pc \in RECONCILED_PCS => ~IsLegacyStore(authFile))

\* the remote restore stage ran, no later stage did, and the gateway is
\* about to start on the legacy store copied from the legacy path of the
\* bucket
C30_Witness ==
    /\ pc = "start_gateway"
    /\ hist.stages = <<"remote">>
    /\ IsLegacyStore(authFile)
    /\ authFile = remote.authLegacy
    /\ remote.authCurrent.st = "absent"

-----------------------------------------------------------------------------
(* The environment bootstrap of the Codex script: lines 625-640, 741-762 *)

\* the stages the Codex script logs in the step that leaves pc "codex"
NewStages == SubSeq(hist'.stages, Len(hist.stages) + 1, Len(hist'.stages))

\* the store block 2) of the script examines: the one block 1) migrated
\* and wrote, or the one on disk
StoreSeen ==
    ensureStoreShape(parse(IF "migration" \in Range(NewStages)
                           THEN writeBuf'[1] ELSE authFile))

EnvInstalled == writeBuf' # <<>> /\ "bootstrap" \in Range(NewStages)

ValidProfiles(store) ==
    {id \in DOMAIN store.map :
        /\ store.map[id].type \in {"token", "oauth"}
        /\ toLowerCase(store.map[id].provider) = CODEX
        /\ ~isExpired(store.map[id])}

-----------------------------------------------------------------------------
(* The degraded marker of an earlier boot: lines 583-594, 783-790 *)

AFTER_MARKER == {"verify", "sync_loop", "start_gateway", "gateway"}

C39_CrashNotMismatch ==
    hist.crashed =>
      /\ ~AUTH_RECONCILE_REQUIRED
      /\ ~hist.firstMismatch
      /\ Range(hist.stages) \cap {"remote", "refresh"} = {}
      /\ ~hist.markerWritten
      /\ (pc \in AFTER_MARKER => ~degradedMarker.present)
      /\ (pc = "aborted" => hist.abortedAt = "killed")

\* the checker crashed on a config and store that are a mismatch, a marker
\* of an earlier boot was found, and the gateway runs without a marker
C39_Witness ==
    /\ pc = "gateway"
    /\ gatewayRunning
    /\ hist.crashed
    /\ hist.markerFound
    /\ ~degradedMarker.present
    /\ check_auth_provider_state(configFile, authFile, env).mismatch

-----------------------------------------------------------------------------
(* The verification before the gateway start: lines 795-847 *)

VERIFIED == {"sync_loop", "start_gateway", "gateway"}

\* C33: after the verification every check that printed a WARNING line is
\* counted in the number of warnings the verification reports
C33_EveryWarningCounted ==
    pc \in VERIFIED => hist.p0.errors = Cardinality(hist.p0.warned)

\* C33, the part that holds: the verification always leads on to the sync
\* loop and the gateway start, it leaves the workspace directory in place,
\* and every check other than the disk check is counted once
C33_NeverFatal ==
    /\ [](pc \in VERIFIED =>
            /\ workspace.dir
            /\ hist.p0.errors = Cardinality(hist.p0.warned \ {"disk"}))
    /\ [][pc = "verify" => pc' = "sync_loop"]_vars

\* the low-disk warning was printed and the verification reported no warning
C33_Witness ==
    /\ pc = "sync_loop"
    /\ "disk" \in hist.p0.warned
    /\ hist.p0.errors = 0

\* a boot that found no workspace directory reports four warnings
C33_MissingWorkspace ==
    /\ pc = "sync_loop"
    /\ "workspace" \in hist.p0.warned
    /\ hist.p0.errors >= 4
    /\ workspace.dir

-----------------------------------------------------------------------------
(* A push followed by the boot of a fresh container *)

\* the config file the detection found in the directory it chose
ConfigName(dir) == IF dir = "/root/.openclaw" THEN "openclaw.json" ELSE "clawdbot.json"

\* the config file of every sync under the current name
PushedKeyRenamed(dir) == <<"openclaw", "openclaw.json">>

\* line 885 and sync.ts line 78: rclone sync <dir>/ <remote>/openclaw/ keeps
\* the names of the files of <dir>
PushedKey(dir) == <<"openclaw", ConfigName(dir)>>

\* lines 96, 101, 107: the objects the restore probes
PROBES ==
    [current |-> <<"openclaw", "openclaw.json">>,
     nested |-> <<"clawdbot", "clawdbot.json">>,
     flat |-> <<"clawdbot.json">>]

LayoutsOf(keys) == {l \in DOMAIN PROBES : PROBES[l] \in keys}

PUSHED_CONFIG == stringify(RemoteDoc)

\* an empty bucket after a push of the config directory dir that ran to its
\* marker
BucketAfterSync(dir) ==
    [NoRemote EXCEPT !.marker = PUSH_MARKER,
                     !.layouts = LayoutsOf({PushedKey(dir)}),
                     !.config = PUSHED_CONFIG]

\* the directory a completed push has synced: a call of syncToR2 that
\* returned success after its marker was written, or an iteration of the loop
\* whose config sync and marker write succeeded
PushedDir ==
    IF syncPc = "returned" /\ syncResult = Success /\ bucket.marker = "fresh"
    THEN bucket.openclaw
    ELSE IF /\ loopPc = "sleep"
            /\ Attempt("config", TRUE) \in Range(loopLog)
            /\ Attempt("marker", TRUE) \in Range(loopLog)
    THEN SYNC_CONFIG
    ELSE ""

\* a fresh container with the object store configured boots on the bucket
\* the push left
FreshContainerBoot ==
    /\ pc = "idle"
    /\ PushedDir # ""
    /\ pc' = "start"
    /\ env' = RestoreEnv
    /\ remote' = BucketAfterSync(PushedDir)
    /\ UNCHANGED <<RCLONE_AVAILABLE, DO_RESTORE, AUTH_RECONCILE_REQUIRED,
                   localMarker, configFile, authFile, oauthFile, authStateFile,
                   degradedMarker, traceStateFile, workspace, skills,
                   gatewayRunning, writeBuf, hist, patchVars, auxVars>>

NextRoundTrip ==
    \/ (pc = "idle" /\ NextPushers)
    \/ FreshContainerBoot
    \/ SetupRclone
    \/ EvaluateRestoreDecision
    \/ RestoreConfig

SpecRoundTrip == PushersInit /\ [][NextRoundTrip]_vars

\* the config restore ran to its end and the marker of the bucket was read
Restored == pc = "restore_workspace" /\ hist.readOk

\* C34: after a completed push, from the current or the legacy config
\* directory, the boot of a fresh container decides to restore, finds the
\* backup under one of the three layouts and has the pushed config file
\* after the config restore
C34_RoundTrip ==
    Restored =>
      /\ DO_RESTORE
      /\ hist.restoredFrom # "none"
      /\ configFile = PUSHED_CONFIG

\* C34 for a push from the current config directory
C34_CurrentRoundTrip ==
    (Restored /\ PushedDir = "/root/.openclaw") =>
      /\ DO_RESTORE
      /\ hist.restoredFrom = "current"
      /\ configFile = PUSHED_CONFIG
      /\ localMarker = PUSH_MARKER \/ localMarker = Marker("")

\* the push came from /root/.clawdbot: the fresh boot decided to restore,
\* found none of the three layouts and has no config file
C34_Witness ==
    /\ Restored
    /\ PushedDir = "/root/.clawdbot"
    /\ DO_RESTORE
    /\ hist.restoredFrom = "none"
    /\ configFile = NoFile

-----------------------------------------------------------------------------
(* The local sync marker: lines 96-112, 885-896 *)

MarkerEpoch(m) == DateEpoch(CatOrEmpty(m))

\* C35 as stated: every change of the local marker is made by the config
\* restore and gives it the value of the remote marker
C35_RestoreSetsRemoteValue ==
    [][localMarker' # localMarker =>
         (pc = "restore_config" /\ localMarker' = remote.marker)]_vars

\* C35: the local marker is changed only by the config restore of a boot
\* that decided to restore, which gives it the value of the remote marker or
\* leaves it empty when the marker cannot be read; the sync loop writes the
\* remote marker only, and after a push that wrote its marker the remote
\* marker is not older than the local one
C35_MarkerFrame ==
    /\ [][localMarker' # localMarker =>
            /\ pc = "restore_config"
            /\ DO_RESTORE
            /\ localMarker' \in {remote.marker, Marker("")}]_vars
    /\ [][lastPush' # lastPush => localMarker' = localMarker]_vars
    /\ [](remote.marker = PUSH_MARKER =>
            MarkerEpoch(localMarker) <= MarkerEpoch(remote.marker))

\* a second boot restored the marker that the loop of the first boot pushed
C35_Witness ==
    /\ hist.boots = 2
    /\ lastPush.boot = 1
    /\ hist.restoredFrom = "current"
    /\ remote.marker = PUSH_MARKER
    /\ localMarker = PUSH_MARKER

\* the read of the remote marker failed during a restore: the local marker
\* is an empty file
C35_EmptyMarker ==
    /\ pc = "restore_workspace"
    /\ hist.markerCopied
    /\ remote.marker.present
    /\ remote.marker.text # ""
    /\ localMarker = Marker("")

-----------------------------------------------------------------------------
(* The auth check after the model-gateway override: lines 391-406, 496-558 *)

\* the provider part of CF_AI_GATEWAY_MODEL, line 376
GwProvider ==
    substring(env.CF_AI_GATEWAY_MODEL, 0, indexOf(env.CF_AI_GATEWAY_MODEL, "/"))

Synthetic == toLowerCase(<<"cf-ai-gw-">> \o GwProvider)

\* the patcher of this boot has made the gateway model the primary model
BootOverrideInstalled ==
    /\ env.CF_AI_GATEWAY_MODEL # <<>>
    /\ hist.patched
    /\ parse(configFile).ok
    /\ startsWith(getPrimaryModel(parse(configFile)), <<"cf-ai-gw-">>)

StoreHasSynthetic ==
    /\ parse(authFile).ok
    /\ \E id \in DOMAIN parse(authFile).value.map :
          EntryMatches(id, parse(authFile).value.map[id], Synthetic)

\* C36: with the override installed the first check derives the provider
\* cf-ai-gw-<provider>, which no API key of the environment satisfies: it
\* reports a mismatch exactly when the auth store has no profile of that
\* provider, and a boot whose flag is still set at the marker step starts
\* the gateway with a degraded marker that names it
C36_SyntheticProvider ==
    /\ (pc = "auth_remote" /\ ~hist.crashed /\ BootOverrideInstalled) =>
          /\ hist.lastCheck.primaryProvider = Synthetic
          /\ hist.firstMismatch <=> ~StoreHasSynthetic
    /\ (pc \in AFTER_MARKER /\ BootOverrideInstalled /\ AUTH_RECONCILE_REQUIRED) =>
          /\ degradedMarker.present
          /\ degradedMarker.provider = Synthetic

\* the environment holds the API key of the provider behind the gateway,
\* the override is installed, and the gateway runs degraded
C36_Witness ==
    /\ pc = "gateway"
    /\ gatewayRunning
    /\ BootOverrideInstalled
    /\ env.ANTHROPIC_API_KEY # ""
    /\ Synthetic = <<"cf-ai-gw-", "anthropic">>
    /\ hist.firstMismatch
    /\ degradedMarker.present
    /\ degradedMarker.provider = Synthetic

\* the store holds a profile of the synthetic provider: no mismatch
C36_StoreCase ==
    /\ pc = "gateway"
    /\ BootOverrideInstalled
    /\ StoreHasSynthetic
    /\ ~hist.firstMismatch
    /\ ~hist.crashed
    /\ ~degradedMarker.present

-----------------------------------------------------------------------------
(* What the patcher leaves alone: lines 331-360, 412-453 *)

\* the value under a key, <<>> when the key is missing
At(o, k) == IF Has(o, k) THEN <<o[k]>> ELSE <<>>

\* the keys of old other than those in defined are in new with their values
Kept(old, new, defined) ==
    \A k \in DOMAIN old \ defined : At(new, k) = At(old, k)

PatchIn == parse(pin).value
PatchOut == parse(pdoc).value

SuppliesChannel(c) ==
    CASE c = "telegram" -> penv.TELEGRAM_BOT_TOKEN # ""
      [] c = "discord" -> penv.DISCORD_BOT_TOKEN # ""
      [] c = "slack" -> penv.SLACK_BOT_TOKEN # "" /\ penv.SLACK_APP_TOKEN # ""

SuppliesModel ==
    /\ penv.CF_AI_GATEWAY_MODEL # <<>>
    /\ OverrideApplies(penv, substring(penv.CF_AI_GATEWAY_MODEL, 0,
                                       indexOf(penv.CF_AI_GATEWAY_MODEL, "/")))

\* C37: after the patcher has run on a document that parses, every key it
\* does not define has the value of the input, at the top level and inside
\* gateway, gateway.auth, channels, plugins and models.providers, and a
\* subtree whose environment input is absent is as it was: gateway.auth,
\* gateway.controlUi, each channel, the models and the agents subtree
C37_OnlyDefinedKeys ==
    (pcount > 0 /\ ValidJson(pin)) =>
      LET gi == GetOr(PatchIn, "gateway", EmptyObj)
          go == PatchOut["gateway"]
          ci == GetOr(PatchIn, "channels", EmptyObj)
          co == PatchOut["channels"]
          pi == GetOr(PatchIn, "plugins", EmptyObj)
          po == PatchOut["plugins"]
          li == GetOr(GetOr(pi, "load", EmptyObj), "paths", <<>>)
          lo == po["load"]["paths"]
      IN  /\ ValidJson(pdoc)
          /\ Kept(PatchIn, PatchOut, {"gateway", "channels", "plugins", "models", "agents"})
          /\ Kept(gi, go, {"port", "mode", "trustedProxies", "auth", "controlUi"})
          /\ Kept(GetOr(gi, "auth", EmptyObj), GetOr(go, "auth", EmptyObj), {"token"})
          /\ penv.OPENCLAW_GATEWAY_TOKEN = "" => At(go, "auth") = At(gi, "auth")
          /\ penv.OPENCLAW_DEV_MODE # "true" => At(go, "controlUi") = At(gi, "controlUi")
          /\ \A c \in {"telegram", "discord", "slack"} :
                ~SuppliesChannel(c) => At(co, c) = At(ci, c)
          /\ Kept(GetOr(pi, "entries", EmptyObj), po["entries"], {"trace-model"})
          /\ \A i \in DOMAIN li : lo[i] = li[i]
          /\ ~SuppliesModel =>
                /\ At(PatchOut, "models") = At(PatchIn, "models")
                /\ At(PatchOut, "agents") = At(PatchIn, "agents")
          /\ Has(PatchIn, "models") =>
                Kept(GetOr(PatchIn["models"], "providers", EmptyObj),
                     PatchOut["models"]["providers"],
                     {<<"cf-ai-gw-">> \o substring(penv.CF_AI_GATEWAY_MODEL, 0,
                                          indexOf(penv.CF_AI_GATEWAY_MODEL, "/"))})

\* the environment supplies neither the gateway token nor the dev mode, and
\* the patched document still has the token and the flag of the input
C37_Witness ==
    /\ pcount = MaxPatches
    /\ ValidJson(pin)
    /\ penv.OPENCLAW_GATEWAY_TOKEN = ""
    /\ penv.OPENCLAW_DEV_MODE # "true"
    /\ At(PatchOut["gateway"], "auth") = <<[token |-> "old-token", mode |-> "token"]>>
    /\ At(PatchOut["gateway"], "controlUi") = <<[allowInsecureAuth |-> TRUE]>>
    /\ At(PatchOut["gateway"], "bind") = <<"lan">>
    /\ At(PatchOut["gateway"], "port") = <<18789>>

\* no channel token in the environment: the channels of the input are kept
C37_ChannelsKept ==
    /\ pcount > 0
    /\ penv.TELEGRAM_BOT_TOKEN = ""
    /\ penv.SLACK_BOT_TOKEN # "" /\ penv.SLACK_APP_TOKEN = ""
    /\ ValidJson(pin)
    /\ At(PatchOut["channels"], "telegram") = <<StaleTelegram>>
    /\ At(PatchOut["channels"], "slack") = <<StaleSlack>>

-----------------------------------------------------------------------------
(* A config file that does not parse: lines 147-174, 321-336, 453 *)

PATCHER_KEYS == {"gateway", "channels", "plugins", "models", "agents"}

\* C38: when the patcher could not parse the config file it found, this boot
\* has not run the onboarding, the patcher has not stopped the boot, and the
\* text it writes is the patched empty object: only patcher-defined
\* subtrees, and no channel the environment does not supply
C38_UnparsableConfig ==
    hist.parseFailed =>
      /\ ~hist.onboarded
      /\ hist.abortedAt \notin {"onboard", "patch"}
      /\ pc = "patch_write" =>
            /\ writeBuf = <<stringify(PatchConfig(EmptyObj, env))>>
            /\ DOMAIN Head(writeBuf).doc \subseteq PATCHER_KEYS
      /\ pc = "auth_check" =>
            /\ configFile = stringify(PatchConfig(EmptyObj, env))
            /\ env.TELEGRAM_BOT_TOKEN = "" => ~Has(configFile.doc["channels"], "telegram")
            /\ env.CF_AI_GATEWAY_MODEL = <<>> => ~Has(configFile.doc, "agents")

\* a first boot found a damaged file with a model and a Telegram subtree in
\* it, and the patcher has written a document without them
C38_Witness ==
    /\ pc = "auth_check"
    /\ hist.boots = 1
    /\ hist.parseFailed
    /\ hist.patched
    /\ ~hist.onboarded
    /\ ValidJson(configFile)
    /\ ~Has(configFile.doc, "agents")
    /\ configFile.doc["gateway"]["port"] = 18789

\* the file the patcher could not parse was cut off by a kill of the
\* previous boot's write
C38_AfterKill ==
    /\ pc = "auth_check"
    /\ hist.boots > 1
    /\ hist.parseFailed
    /\ ~hist.onboarded

-----------------------------------------------------------------------------
(* The trace command as a round trip: index.ts lines 63-120 and the
   installed copy of lines 261-307 *)

\* index.ts lines 20-26: the text ends with a newline
writeJsonFileAtomicTs(value) == FileText(value, "\n")

\* index.ts lines 57-61: the part before the first blank of the trimmed text
firstWordTs(args) ==
    LET t == trim(args)
        i == indexOf(t, " ")
    IN  IF i < 0 THEN t ELSE substring(t, 0, i)

\* index.ts lines 63-120: the files after the handler, <<config file, state file>>
traceModelPlugin(cfgFile, stateFile, args) ==
    LET cfg == parse(cfgFile)
        state == loadState(stateFile)
        action == normalizeArg(firstWordTs(args))
        currentPrefix == getTelegramPrefix(cfg.value)
        restore == GetOr(state, "previousTelegramPrefix", "")
    IN  IF ~cfg.ok \/ action = "status" THEN <<cfgFile, stateFile>>
        ELSE IF action = "on"
        THEN <<writeJsonFileAtomicTs(setTelegramPrefix(cfg.value, TRACE_PREFIX)),
               IF ~Has(state, "previousTelegramPrefix")
               THEN writeJsonFileAtomicTs(Put(state, "previousTelegramPrefix",
                                              currentPrefix))
               ELSE stateFile>>
        ELSE <<writeJsonFileAtomicTs(setTelegramPrefix(cfg.value, restore)),
               writeJsonFileAtomicTs(EmptyObj)>>

\* the files after a sequence of commands, the installed handler or the
\* handler of index.ts
RECURSIVE RunTrace(_, _, _)
RunTrace(files, cmds, installed) ==
    IF cmds = <<>> THEN files
    ELSE RunTrace(IF installed
                  THEN TraceHandler(files[1], files[2], Head(cmds))
                  ELSE traceModelPlugin(files[1], files[2], Head(cmds)),
                  Tail(cmds), installed)

TRACE_ON == <<"on">>
TRACE_OFF == <<"off">>
TRACE_MIDDLE == {TRACE_ON, <<" ", "ON">>, <<"status">>, <<>>, <<"On", " ", "please">>}
TraceMiddles == {<<>>} \cup {<<a>> : a \in TRACE_MIDDLE}
                 \cup {<<a, b>> : a, b \in TRACE_MIDDLE}

\* the gateway runs on a config file that parses, and nothing is saved
TraceStart ==
    /\ pc = "gateway"
    /\ gatewayRunning
    /\ ValidJson(configFile)
    /\ traceStateFile = NoFile

\* the prefix of the config is p and the saved state is the empty object
BackTo(files, p) ==
    /\ parse(files[1]).ok
    /\ getTelegramPrefix(parse(files[1]).value) = p
    /\ parse(files[2]).ok
    /\ parse(files[2]).value = EmptyObj

\* C40: from a config with prefix p and no saved state, /trace on, then up
\* to two /trace on or /trace status, then /trace off, handled by the
\* installed extension, leave the prefix p and an empty saved state
C40_RoundTrip ==
    TraceStart =>
      \A w \in TraceMiddles :
        BackTo(RunTrace(<<configFile, traceStateFile>>,
                        <<TRACE_ON>> \o w \o <<TRACE_OFF>>, TRUE),
               getTelegramPrefix(configFile.doc))

\* the same round trip through the handler of index.ts
C40_SourceRoundTrip ==
    TraceStart =>
      \A w \in TraceMiddles :
        BackTo(RunTrace(<<configFile, traceStateFile>>,
                        <<TRACE_ON>> \o w \o <<TRACE_OFF>>, FALSE),
               getTelegramPrefix(configFile.doc))

\* in both handlers a repeated /trace on keeps the saved prefix and
\* /trace status changes neither file
C40_OnAndStatusFrame ==
    TraceStart =>
      \A installed \in BOOLEAN, w \in TraceMiddles :
        LET a == RunTrace(<<configFile, traceStateFile>>, <<TRACE_ON>>, installed)
            b == RunTrace(a, w, installed)
        IN  /\ b[2] = a[2]
            /\ a[2].doc = [previousTelegramPrefix |-> getTelegramPrefix(configFile.doc)]
            /\ RunTrace(b, <<<<"status">>>>, installed) = b

\* the gateway has handled /trace on: the config file carries the trace
\* prefix and no longer parses, the original prefix is in the state file,
\* and /trace off changes neither file
C40_Witness ==
    /\ pc = "gateway"
    /\ gatewayRunning
    /\ hist.traced = "on"
    /\ getTelegramPrefix(configFile.doc) = TRACE_PREFIX
    /\ traceStateFile.st = "text"
    /\ traceStateFile.doc = [previousTelegramPrefix |-> ""]
    /\ TraceHandler(configFile, traceStateFile, TRACE_OFF) = <<configFile, traceStateFile>>


\* the round trip starts from a prefix other than the empty one
C40_StalePrefix ==
    /\ TraceStart
    /\ getTelegramPrefix(configFile.doc) = "[hal] "
====
